---- MODULE Spec2Model ----
(***************************************************************************)
(* Verification model of the airpods service orchestration engine.         *)
(*                                                                         *)
(*   SpecPull   - src/airpods/cli/commands/start.py                        *)
(*                _pull_images_with_progress: the worker pool, the event   *)
(*                queue and the single consumer loop.                      *)
(*   SpecReady  - src/airpods/cli/commands/start.py start(): the launch    *)
(*                loop and the readiness wait.                             *)
(*   SpecStatus - src/airpods/cli/status_view.py render_status: the        *)
(*                classification of one service row.                       *)
(***************************************************************************)
EXTENDS Integers, Sequences, FiniteSets, TLC

VARIABLES
    \* ---- _pull_images_with_progress ----
    specs,            \* the specs argument: a sequence of service names
    max_concurrent,   \* the max_concurrent argument
    pull_pc,          \* position of each _pull_one call (by task id)
    outcome,          \* how each _pull_one call ended
    pulled,           \* number of `<runtime> pull` subprocesses spawned per task
    lines_put,        \* number of line events the workers have put so far
    sent,             \* kinds of the events each worker has put, in order
    events,           \* the queue.Queue of _PullEvent
    received,         \* kinds of the events the consumer got, per task, in order
    task_status,      \* the status field of each progress task
    failures,         \* the consumer's failures list (service names)
    done_count,       \* the consumer's done_count
    cons_pc,          \* position of the caller / consumer thread
    writes,           \* per structure, the threads that have written it
    \* ---- start(): launch loop and readiness wait ----
    specs_to_start,   \* sequence of the names of the services to start
    descr,            \* per service: health_path set?, configured host ports
    timeout_seconds,  \* cli_config.startup_timeout
    wait,             \* the --wait option
    ready_pc,         \* position of start() after the image pull
    idx,              \* index of the for loop the command is in
    failed_services,  \* list of names
    service_urls,     \* dict name -> host port of the url (0: empty url)
    timeout_services, \* list of names
    healthy_services, \* list of names
    clock,            \* time.time() - start_time, in ticks
    elapsed,          \* the loop's elapsed
    query_failed,     \* this iteration's pod status query failed
    seen_rows,        \* this iteration's pod rows read so far (name -> Status)
    pod_exited,       \* names whose pod is exited, as last known
    all_done,         \* the loop's all_done
    pending,          \* the loop's pending list
    probe,            \* what the last loop step asked the runtime and HTTP
    slept,            \* time.sleep was called
    polled,           \* pod_status_rows was called in the wait loop
    launched,         \* the names start_service was called for, in order
    \* ---- render_status ----
    status_specs,     \* sequence of the names of the services to show
    status_pc,        \* position of render_status
    status_in,        \* what the runtime answered for the last row
    table,            \* the rows added to the table
    \* ---- ServiceRegistry and ServiceManager ----
    reg_order,        \* ServiceRegistry._order
    reg_specs,        \* ServiceRegistry._specs
    mgr_in,           \* the last call and its arguments
    mgr_out,          \* what the last call returned, raised or passed on
    \* ---- the Docker runtime adapter ----
    dk_present,       \* the docker binary is installed
    dk_rows,          \* the containers of the daemon, as docker ps lists them
    dk_in,            \* the last adapter call and its arguments
    dk_out,           \* how the last adapter call ended
    dk_log,           \* the docker invocations the last adapter call made
    \* ---- the ComfyUI image selection ----
    cuda_map,         \* the capability table of airpods.cuda
    img_in,           \* the last selection call and its arguments
    img_out,          \* what the last selection call returned
    \* ---- the llama.cpp image derivation ----
    drv_op,           \* the derivation that ran: none, cpu or gpu
    drv_in,           \* the image reference of the service
    drv_once,         \* the image a derivation made of it
    drv_twice         \* the image a second derivation made of that

pullVars == <<specs, max_concurrent, pull_pc, outcome, pulled, lines_put, sent,
              events, received, task_status, failures, done_count, cons_pc,
              writes>>

readyCfg == <<specs_to_start, descr, timeout_seconds, wait>>

readyVars == <<readyCfg, ready_pc, idx, failed_services, service_urls,
               timeout_services, healthy_services, clock, elapsed, query_failed,
               seen_rows, pod_exited, all_done, pending, probe, slept, polled,
               launched>>

statusVars == <<status_specs, status_pc, status_in, table>>

managerVars == <<reg_order, reg_specs, mgr_in, mgr_out>>

dockerVars == <<dk_present, dk_rows, dk_in, dk_out, dk_log>>

imageVars == <<cuda_map, img_in, img_out>>

deriveVars == <<drv_op, drv_in, drv_once, drv_twice>>

vars == <<pullVars, readyVars, statusVars, managerVars, dockerVars, imageVars, deriveVars>>

\* what the image pull leaves alone, what the launch and wait leave alone
notPull == <<readyVars, statusVars, managerVars, dockerVars, imageVars, deriveVars>>
notReady == <<pullVars, statusVars, managerVars, dockerVars, imageVars, deriveVars>>
notStatus == <<pullVars, readyVars, managerVars, dockerVars, imageVars, deriveVars>>
notManager == <<pullVars, readyVars, statusVars, dockerVars, imageVars, deriveVars>>
notDocker == <<pullVars, readyVars, statusVars, managerVars, imageVars, deriveVars>>
notImage == <<pullVars, readyVars, statusVars, managerVars, dockerVars, deriveVars>>
notDerive == <<pullVars, readyVars, statusVars, managerVars, dockerVars, imageVars>>

-----------------------------------------------------------------------------
(* Bounds of the model *)

NumSpecs == 2          \* at most this many specs are pulled
MaxLines == 1          \* at most this many output lines in all
NumServices == 2       \* at most this many services are started
MaxTimeout == 2        \* startup_timeout ranges over 0..MaxTimeout ticks
MaxTick == 2           \* one sleep takes 1..MaxTick ticks
NumRows == 1           \* at most this many services are shown
MaxRestarts == 4       \* RestartCount ranges over 0..MaxRestarts
MaxRegistered == 2     \* a registry is built from at most this many specs
MaxNames == 2          \* resolve is given at most this many names
MaxContainers == 2     \* the daemon has at most this many containers
MaxPieces == 4         \* an image reference has at most this many pieces
MaxConcurrentArg == 2  \* pull_images is passed max_concurrent up to this; 0 is not passed

AllNames == <<"ollama", "open-webui", "comfyui", "llamacpp", "svc5", "svc6">>

-----------------------------------------------------------------------------
(* _pull_images_with_progress *)

Tasks == 1..Len(specs)

\* start.py:955  max_workers = max(1, max_concurrent)
max_workers_off == max_concurrent + 1
max_workers == IF max_concurrent > 1 THEN max_concurrent ELSE 1

\* task ids whose _pull_one call occupies a pool thread
Running == {t \in Tasks : pull_pc[t] \in {"begin", "popen", "read"}}

\* start.py:1009 etc.  events.put(_PullEvent(kind, task_id))
Put(q, kind, t) == Append(q, [kind |-> kind, task_id |-> t])

\* the structures of _pull_images_with_progress that outlive one statement
Structures ==
    {"events", "progress", "progress_bytes", "progress_totals", "failures",
     "done_count"}

\* the thread that called _pull_images_with_progress; the pool thread that
\* runs _pull_one for task t is thread t
MainThread == 0

\* start.py:1007-1039  what _pull_one writes besides its locals: a worker
\* that also counts its own completion, and the code, whose every write is
\* an events.put
WorkerWritesCounter == {"events", "done_count"}
WorkerWrites == {"events"}

\* start.py:1059-1078  the structures created and filled before the loop
SubmitWrites ==
    {"events", "progress", "progress_bytes", "progress_totals", "failures",
     "done_count"}

\* start.py:1080-1132  what one turn of the loop writes: events.get takes
\* the event out, then the branch for its kind
ConsumerWrites(kind) ==
    CASE kind = "start" -> {"events", "progress"}
      [] kind = "line"  -> {"events", "progress", "progress_bytes", "progress_totals"}
      [] kind = "done"  -> {"events", "progress", "done_count"}
      [] kind = "error" -> {"events", "progress", "failures", "done_count"}
      [] OTHER          -> {"events"}

\* thread th has written the structures in written
Wrote(w, th, written) ==
    [st \in Structures |-> IF st \in written THEN w[st] \cup {th} ELSE w[st]]

PullInit ==
    /\ writes = [st \in Structures |-> {}]
    /\ specs \in {SubSeq(AllNames, 1, n) : n \in 0..NumSpecs}
    /\ max_concurrent \in 0..NumSpecs
    /\ pull_pc = [t \in Tasks |-> "unsubmitted"]
    /\ outcome = [t \in Tasks |-> "none"]
    /\ pulled = [t \in Tasks |-> 0]
    /\ lines_put = 0
    /\ sent = [t \in Tasks |-> <<>>]
    /\ events = <<>>
    /\ received = [t \in Tasks |-> <<>>]
    /\ task_status = [t \in Tasks |-> "none"]
    /\ failures = <<>>
    /\ done_count = 0
    /\ cons_pc = "call"

\* start.py:950-952  no specs: warn and return
PullNothing ==
    /\ UNCHANGED notPull
    /\ UNCHANGED writes
    /\ cons_pc = "call"
    /\ specs = <<>>
    /\ cons_pc' = "returned"
    /\ UNCHANGED <<specs, max_concurrent, pull_pc, outcome, pulled, lines_put,
                   sent, events, received, task_status, failures, done_count>>

\* start.py:1059-1078  add one progress task per spec, submit one _pull_one
\* per spec to the executor, failures = [], done_count = 0
Submit ==
    /\ UNCHANGED notPull
    /\ writes' = Wrote(writes, MainThread, SubmitWrites)
    /\ cons_pc = "call"
    /\ specs # <<>>
    /\ pull_pc' = [t \in Tasks |-> "queued"]
    /\ task_status' = [t \in Tasks |-> "Waiting"]
    /\ failures' = <<>>
    /\ done_count' = 0
    /\ cons_pc' = "loop"
    /\ UNCHANGED <<specs, max_concurrent, outcome, pulled, lines_put, sent,
                   events, received>>

\* ThreadPoolExecutor(max_workers): a pool thread takes the oldest queued
\* work item; there are never more than max_workers pool threads.
WorkerTake(t) ==
    /\ UNCHANGED notPull
    /\ UNCHANGED writes
    /\ pull_pc[t] = "queued"
    /\ \A u \in Tasks : u < t => pull_pc[u] # "queued"
    /\ Cardinality(Running) < max_workers
    /\ pull_pc' = [pull_pc EXCEPT ![t] = "begin"]
    /\ UNCHANGED <<specs, max_concurrent, outcome, pulled, lines_put, sent,
                   events, received, task_status, failures, done_count, cons_pc>>

\* start.py:1008-1010  events.put(start)
PutStart(t) ==
    /\ UNCHANGED notPull
    /\ writes' = Wrote(writes, t, WorkerWrites)
    /\ pull_pc[t] = "begin"
    /\ events' = Put(events, "start", t)
    /\ sent' = [sent EXCEPT ![t] = Append(@, "start")]
    /\ pull_pc' = [pull_pc EXCEPT ![t] = "popen"]
    /\ UNCHANGED <<specs, max_concurrent, outcome, pulled, lines_put,
                   received, task_status, failures, done_count, cons_pc>>

\* start.py:1011-1021  subprocess.Popen([runtime_cli, "pull", spec.image])
PopenOk(t) ==
    /\ UNCHANGED notPull
    /\ UNCHANGED writes
    /\ pull_pc[t] = "popen"
    /\ pulled' = [pulled EXCEPT ![t] = @ + 1]
    /\ pull_pc' = [pull_pc EXCEPT ![t] = "read"]
    /\ UNCHANGED <<specs, max_concurrent, outcome, lines_put, sent, events,
                   received, task_status, failures, done_count, cons_pc>>

\* start.py:1018-1020  Popen raised OSError: put error, return
PopenOSError(t) ==
    /\ UNCHANGED notPull
    /\ writes' = Wrote(writes, t, WorkerWrites)
    /\ pull_pc[t] = "popen"
    /\ pulled' = [pulled EXCEPT ![t] = @ + 1]
    /\ events' = Put(events, "error", t)
    /\ sent' = [sent EXCEPT ![t] = Append(@, "error")]
    /\ outcome' = [outcome EXCEPT ![t] = "oserror"]
    /\ pull_pc' = [pull_pc EXCEPT ![t] = "returned"]
    /\ UNCHANGED <<specs, max_concurrent, lines_put, received, task_status,
                   failures, done_count, cons_pc>>

\* start.py:1024-1027  one non-empty output line: put line
ReadLine(t) ==
    /\ UNCHANGED notPull
    /\ writes' = Wrote(writes, t, WorkerWrites)
    /\ pull_pc[t] = "read"
    /\ lines_put < MaxLines
    /\ lines_put' = lines_put + 1
    /\ events' = Put(events, "line", t)
    /\ sent' = [sent EXCEPT ![t] = Append(@, "line")]
    /\ UNCHANGED <<specs, max_concurrent, pull_pc, outcome, pulled, received,
                   task_status, failures, done_count, cons_pc>>

\* start.py:1022-1029  reading proc.stdout raises (text decoding): the finally
\* clause waits for the process and the exception leaves _pull_one, to be
\* stored in the future; no event is put.
ReadRaise(t) ==
    /\ UNCHANGED notPull
    /\ UNCHANGED writes
    /\ pull_pc[t] = "read"
    /\ outcome' = [outcome EXCEPT ![t] = "raised"]
    /\ pull_pc' = [pull_pc EXCEPT ![t] = "raised"]
    /\ UNCHANGED <<specs, max_concurrent, pulled, lines_put, sent, events,
                   received, task_status, failures, done_count, cons_pc>>

\* start.py:1036-1037  the pull ended with rc = 0 and
\* manager.runtime.image_size raises (docker.py:173-185 catches only
\* CalledProcessError and ValueError, so an OSError of subprocess.run gets
\* out): the exception leaves _pull_one before the done event is put.
SizeRaise(t) ==
    /\ UNCHANGED notPull
    /\ UNCHANGED writes
    /\ pull_pc[t] = "read"
    /\ outcome' = [outcome EXCEPT ![t] = "size_raised"]
    /\ pull_pc' = [pull_pc EXCEPT ![t] = "raised"]
    /\ UNCHANGED <<specs, max_concurrent, pulled, lines_put, sent, events,
                   received, task_status, failures, done_count, cons_pc>>

\* start.py:1031-1039  the events put after proc.wait() returned rc:
\* rc != 0: error, then return; otherwise image_size and done
TerminalNoReturn(rc) == IF rc = "nonzero" THEN <<"error", "done">> ELSE <<"done">>
TerminalKinds(rc) == IF rc = "nonzero" THEN <<"error">> ELSE <<"done">>

RECURSIVE PutAll(_, _, _)
PutAll(q, kinds, t) ==
    IF kinds = <<>> THEN q ELSE PutAll(Put(q, Head(kinds), t), Tail(kinds), t)

\* start.py:1024-1039  end of output; finally: rc = proc.wait(); then the
\* terminal event for rc and return
PullFinish(t) ==
    /\ UNCHANGED notPull
    /\ writes' = Wrote(writes, t, WorkerWrites)
    /\ pull_pc[t] = "read"
    /\ \E rc \in {"zero", "nonzero"} :
         /\ outcome' = [outcome EXCEPT ![t] = rc]
         /\ events' = PutAll(events, TerminalKinds(rc), t)
         /\ sent' = [sent EXCEPT ![t] = @ \o TerminalKinds(rc)]
    /\ pull_pc' = [pull_pc EXCEPT ![t] = "returned"]
    /\ UNCHANGED <<specs, max_concurrent, pulled, lines_put,
                   received, task_status, failures, done_count, cons_pc>>

\* start.py:1085-1132  the consumer's reaction to one event
StatusAfter(old, kind) ==
    CASE kind = "start" -> "Pulling"
      [] kind = "line"  -> "Line"
      [] kind = "done"  -> "Ready"
      [] kind = "error" -> "Failed"
      [] OTHER          -> old

\* start.py:1122-1124  failures.append((spec.name, payload)) on error only
FailuresDropped(fs, ev) == fs
FailuresAfter(fs, ev) ==
    IF ev.kind = "error" THEN Append(fs, specs[ev.task_id]) ELSE fs

\* start.py:1121,1132  done_count += 1 on done and on error
DoneCountAfter(n, ev) == IF ev.kind \in {"done", "error"} THEN n + 1 ELSE n

\* start.py:1079-1132  one turn of the while loop that gets an event
Consume ==
    /\ UNCHANGED notPull
    /\ cons_pc = "loop"
    /\ done_count < Len(specs)
    /\ events # <<>>
    /\ LET ev == Head(events) IN
         /\ events' = Tail(events)
         /\ received' = [received EXCEPT ![ev.task_id] = Append(@, ev.kind)]
         /\ task_status' = [task_status EXCEPT
                              ![ev.task_id] = StatusAfter(@, ev.kind)]
         /\ failures' = FailuresAfter(failures, ev)
         /\ done_count' = DoneCountAfter(done_count, ev)
         /\ writes' = Wrote(writes, MainThread, ConsumerWrites(ev.kind))
    /\ UNCHANGED <<specs, max_concurrent, pull_pc, outcome, pulled, lines_put,
                   sent, cons_pc>>

\* start.py:1080-1083  events.get(timeout=0.1) raises queue.Empty: continue
ConsumeEmpty ==
    /\ UNCHANGED notPull
    /\ cons_pc = "loop"
    /\ done_count < Len(specs)
    /\ events = <<>>
    /\ UNCHANGED pullVars

\* start.py:1134-1155  the loop ended: future.result() for every future, the
\* executor shuts down, then exit code 1 if failures else normal return
JoinFutures ==
    /\ UNCHANGED notPull
    /\ UNCHANGED writes
    /\ cons_pc = "loop"
    /\ done_count >= Len(specs)
    /\ \A t \in Tasks : pull_pc[t] \in {"returned", "raised"}
    /\ cons_pc' = IF \E t \in Tasks : pull_pc[t] = "raised" THEN "raised"
                  ELSE IF failures # <<>> THEN "exit1"
                  ELSE "returned"
    /\ UNCHANGED <<specs, max_concurrent, pull_pc, outcome, pulled, lines_put,
                   sent, events, received, task_status, failures, done_count>>

NextPull ==
    \/ PullNothing
    \/ Submit
    \/ \E t \in Tasks : WorkerTake(t)
    \/ \E t \in Tasks : PutStart(t)
    \/ \E t \in Tasks : PopenOk(t)
    \/ \E t \in Tasks : PopenOSError(t)
    \/ \E t \in Tasks : ReadLine(t)
    \/ \E t \in Tasks : ReadRaise(t)
    \/ \E t \in Tasks : SizeRaise(t)
    \/ \E t \in Tasks : PullFinish(t)
    \/ Consume
    \/ ConsumeEmpty
    \/ JoinFutures


-----------------------------------------------------------------------------
(* start(): launching the services and waiting for readiness *)

Statuses == {"none", "Running", "Exited", "Error", "Created"}

\* results of podman/docker pod_inspect as service_ports reads them: the
\* query failed (None), no published binding, one binding with a HostPort
InspectResults == {"None", "nobinding", "binding"}

\* results of the HTTP GET of check_service_health: a status code or an error
HttpResults ==
    {[error |-> TRUE, code |-> 0]}
       \cup {[error |-> FALSE, code |-> c] : c \in {200, 399, 400}}

SpecPort == 11434      \* the host port of a spec that configures ports
BoundPort == 9090      \* the HostPort of a published binding

Descriptors == {[health_path |-> TRUE,  ports |-> <<SpecPort>>],
                [health_path |-> FALSE, ports |-> <<SpecPort>>],
                [health_path |-> TRUE,  ports |-> <<>>]}

NoProbe == [name |-> "", status |-> "none", inspected |-> FALSE,
            checked |-> FALSE, http |-> [error |-> TRUE, code |-> 0]]

Range(q) == {q[i] : i \in 1..Len(q)}

StartNames == Range(specs_to_start)

\* the lists start() may be given: distinct names in registry order, or the
\* same name twice (ServiceRegistry.resolve keeps the caller's multiplicity)
StartLists ==
    {SubSeq(AllNames, 1, n) : n \in 1..NumServices}
       \cup {<<AllNames[1], AllNames[1]>>}

ReadyIdle ==
    /\ specs_to_start = <<>>
    /\ descr = <<>>
    /\ timeout_seconds = 0
    /\ wait = FALSE
    /\ ready_pc = "idle"
    /\ idx = 0
    /\ failed_services = <<>>
    /\ service_urls = <<>>
    /\ timeout_services = <<>>
    /\ healthy_services = <<>>
    /\ clock = 0
    /\ elapsed = 0
    /\ query_failed = FALSE
    /\ seen_rows = <<>>
    /\ pod_exited = {}
    /\ all_done = FALSE
    /\ pending = <<>>
    /\ probe = NoProbe
    /\ slept = FALSE
    /\ polled = FALSE
    /\ launched = <<>>

\* start.py:493-495  service_urls = {}, failed_services = [], timeout_services = []
ReadyInit ==
    /\ specs_to_start \in StartLists
    /\ descr \in [Range(specs_to_start) -> Descriptors]
    /\ timeout_seconds \in 0..MaxTimeout
    /\ wait \in BOOLEAN
    /\ ready_pc = "launch"
    /\ idx = 1
    /\ failed_services = <<>>
    /\ service_urls = <<>>
    /\ timeout_services = <<>>
    /\ healthy_services = <<>>
    /\ clock = 0
    /\ elapsed = 0
    /\ query_failed = FALSE
    /\ seen_rows = <<>>
    /\ pod_exited = {}
    /\ all_done = FALSE
    /\ pending = <<>>
    /\ probe = NoProbe
    /\ slept = FALSE
    /\ polled = FALSE
    /\ launched = <<>>

InList(n, q) == n \in Range(q)

\* start.py:607-610  except Exception: failed_services.append(spec.name);
\* continue
FailedAfterLaunchDropped(failed, name, raised) == failed
FailedAfterLaunch(failed, name, raised) ==
    IF raised THEN Append(failed, name) ELSE failed

\* start.py:578-610  one turn of the launch loop: start_service returns, and
\* the container is then up or has already exited, or start_service raises
\* and the name is appended to failed_services
Launch ==
    /\ UNCHANGED notReady
    /\ ready_pc = "launch"
    /\ idx <= Len(specs_to_start)
    /\ LET name == specs_to_start[idx] IN
         \E raised \in BOOLEAN :
            /\ launched' = Append(launched, [name |-> name, raised |-> raised])
            /\ failed_services' = FailedAfterLaunch(failed_services, name, raised)
            /\ IF raised
               THEN UNCHANGED pod_exited
               ELSE \E ex \in BOOLEAN :
                      pod_exited' = IF ex THEN pod_exited \cup {name}
                                    ELSE pod_exited \ {name}
    /\ idx' = idx + 1
    /\ UNCHANGED <<readyCfg, ready_pc, service_urls, timeout_services,
                   healthy_services, clock, elapsed, query_failed, seen_rows,
                   all_done, pending, probe, slept, polled>>

\* start.py:617-656  without --wait: report and return, exit code 1 if a
\* launch failed
NoWaitReturn ==
    /\ UNCHANGED notReady
    /\ UNCHANGED launched
    /\ ready_pc = "launch"
    /\ idx > Len(specs_to_start)
    /\ ~wait
    /\ ready_pc' = IF failed_services # <<>> THEN "exit1" ELSE "done0"
    /\ UNCHANGED <<readyCfg, idx, failed_services, service_urls,
                   timeout_services, healthy_services, clock, elapsed,
                   query_failed, seen_rows, pod_exited, all_done, pending,
                   probe, slept, polled>>

\* start.py:658-661  start_time = time.time()
WaitBegin ==
    /\ UNCHANGED notReady
    /\ UNCHANGED launched
    /\ ready_pc = "launch"
    /\ idx > Len(specs_to_start)
    /\ wait
    /\ clock' = 0
    /\ ready_pc' = "top"
    /\ UNCHANGED <<readyCfg, idx, failed_services, service_urls,
                   timeout_services, healthy_services, elapsed, query_failed,
                   seen_rows, pod_exited, all_done, pending, probe, slept,
                   polled>>

\* start.py:668  if elapsed >= timeout_seconds: break
TimedOutLate(e, t) == e > t
TimedOutNow(e, t) == e >= t

\* start.py:666-673  top of the loop: read the clock, leave on timeout, else
\* fetch the pod status rows once (docker.py:55-58: a failed query gives no
\* rows), all_done = True, pending = []
LoopTop ==
    /\ UNCHANGED notReady
    /\ UNCHANGED launched
    /\ ready_pc = "top"
    /\ elapsed' = clock
    /\ IF TimedOutNow(clock, timeout_seconds)
       THEN /\ ready_pc' = "finish"
            /\ UNCHANGED <<query_failed, seen_rows, all_done, pending, idx,
                           polled, probe>>
       ELSE /\ ready_pc' = "body"
            /\ query_failed' \in BOOLEAN
            /\ seen_rows' = <<>>
            /\ all_done' = TRUE
            /\ pending' = <<>>
            /\ idx' = 1
            /\ polled' = TRUE
            /\ probe' = NoProbe
    /\ UNCHANGED <<readyCfg, failed_services, service_urls, timeout_services,
                   healthy_services, clock, pod_exited, slept>>

\* start.py:676-680  a failed or healthy service is skipped
AlreadyResolvedFailedOnly(name) == InList(name, failed_services)
AlreadyResolved(name) ==
    InList(name, failed_services) \/ name \in DOMAIN service_urls

\* services.py:171-175  service_ports: pod_inspect(...) or {}, then the
\* PortBindings of its InfraConfig; the model keeps the HostPort (0: none)
ServicePortsUnguarded(ins) ==
    CASE ins = "None"      -> [raised |-> TRUE,  bound |-> 0]
      [] ins = "nobinding" -> [raised |-> FALSE, bound |-> 0]
      [] ins = "binding"   -> [raised |-> FALSE, bound |-> BoundPort]
ServicePorts(ins) ==
    CASE ins = "None"      -> [raised |-> FALSE, bound |-> 0]
      [] ins = "nobinding" -> [raised |-> FALSE, bound |-> 0]
      [] ins = "binding"   -> [raised |-> FALSE, bound |-> BoundPort]

\* status_view.py:207-225 and start.py:701-702  first published host port,
\* else the first configured host port, else None (0)
HostPort(ports, bound) ==
    IF bound # 0 THEN bound
    ELSE IF ports # <<>> THEN ports[1]
    ELSE 0

\* status_view.py:283-305  check_service_health: True iff 200 <= code < 400;
\* any exception gives False
CheckServiceHealthLoose(http) == ~http.error /\ 200 <= http.code /\ http.code <= 400
CheckServiceHealth(http) == ~http.error /\ 200 <= http.code /\ http.code < 400

\* the row of this iteration's snapshot for a pod: nothing if the query
\* failed, what was read before in this iteration if it was, else any status
RowChoices(name) ==
    IF query_failed THEN {"none"}
    ELSE IF name \in DOMAIN seen_rows THEN {seen_rows[name]}
    ELSE Statuses

Pend(name) ==
    /\ all_done' = FALSE
    /\ pending' = Append(pending, name)
    /\ UNCHANGED <<failed_services, service_urls>>

MarkHealthy(name, host_port) ==
    /\ service_urls' = (name :> host_port) @@ service_urls
    /\ UNCHANGED <<failed_services, all_done, pending>>

\* start.py:675-716  one turn of the for loop over specs_to_start
ProcessSpec ==
    /\ UNCHANGED notReady
    /\ UNCHANGED launched
    /\ ready_pc = "body"
    /\ idx <= Len(specs_to_start)
    /\ idx' = idx + 1
    /\ LET name == specs_to_start[idx] IN
       IF AlreadyResolved(name)
       THEN /\ probe' = NoProbe
            /\ UNCHANGED <<failed_services, service_urls, all_done, pending,
                           seen_rows, pod_exited, ready_pc>>
       ELSE \E st \in RowChoices(name) :
            /\ seen_rows' = IF query_failed THEN seen_rows
                            ELSE (name :> st) @@ seen_rows
            /\ pod_exited' = IF query_failed THEN pod_exited
                             ELSE IF st \in {"Exited", "Error"}
                                  THEN pod_exited \cup {name}
                                  ELSE pod_exited \ {name}
            /\ IF st = "none"
               THEN /\ Pend(name)
                    /\ probe' = [NoProbe EXCEPT !.name = name]
                    /\ UNCHANGED ready_pc
               ELSE IF st \in {"Exited", "Error"}
               THEN /\ failed_services' =
                          IF InList(name, failed_services) THEN failed_services
                          ELSE Append(failed_services, name)
                    /\ probe' = [NoProbe EXCEPT !.name = name, !.status = st]
                    /\ UNCHANGED <<service_urls, all_done, pending, ready_pc>>
               ELSE IF st # "Running"
               THEN /\ Pend(name)
                    /\ probe' = [NoProbe EXCEPT !.name = name, !.status = st]
                    /\ UNCHANGED ready_pc
               ELSE \E ins \in InspectResults :
                    LET sp == ServicePorts(ins)
                        p == [NoProbe EXCEPT !.name = name, !.status = st,
                                             !.inspected = TRUE]
                    IN
                    IF sp.raised
                    THEN /\ ready_pc' = "raised"
                         /\ probe' = p
                         /\ UNCHANGED <<failed_services, service_urls,
                                        all_done, pending>>
                    ELSE LET host_port == HostPort(descr[name].ports, sp.bound) IN
                         IF ~descr[name].health_path \/ host_port = 0
                         THEN /\ MarkHealthy(name, host_port)
                              /\ probe' = p
                              /\ UNCHANGED ready_pc
                         ELSE \E http \in HttpResults :
                              /\ probe' = [p EXCEPT !.checked = TRUE, !.http = http]
                              /\ UNCHANGED ready_pc
                              /\ IF CheckServiceHealth(http)
                                 THEN MarkHealthy(name, host_port)
                                 ELSE Pend(name)
    /\ UNCHANGED <<readyCfg, timeout_services, healthy_services, clock,
                   elapsed, query_failed, slept, polled>>

\* start.py:718-730  after the for loop: break if all_done, else update the
\* spinner and time.sleep(check_interval)
SleepOrBreak ==
    /\ UNCHANGED notReady
    /\ UNCHANGED launched
    /\ ready_pc = "body"
    /\ idx > Len(specs_to_start)
    /\ IF all_done
       THEN /\ ready_pc' = "finish"
            /\ UNCHANGED <<clock, slept>>
       ELSE /\ ready_pc' = "top"
            /\ \E d \in 1..MaxTick : clock' = clock + d
            /\ slept' = TRUE
    /\ probe' = NoProbe
    /\ UNCHANGED <<readyCfg, idx, failed_services, service_urls,
                   timeout_services, healthy_services, elapsed, query_failed,
                   seen_rows, pod_exited, all_done, pending, polled>>

RECURSIVE Filter(_, _)
Filter(q, keep) ==
    IF q = <<>> THEN <<>>
    ELSE IF Head(q) \in keep THEN <<Head(q)>> \o Filter(Tail(q), keep)
    ELSE Filter(Tail(q), keep)

\* start.py:733-735  the services that are neither failed nor healthy
TimedOutNotHealthy == StartNames \ DOMAIN service_urls
TimedOutNames == (StartNames \ Range(failed_services)) \ DOMAIN service_urls

\* start.py:738-740  the keys of service_urls that are not failed
HealthyNames == DOMAIN service_urls \ Range(failed_services)

\* start.py:732-766  after the loop: timeout_services, healthy_services,
\* exit code 1 if any service failed
Finish ==
    /\ UNCHANGED notReady
    /\ UNCHANGED launched
    /\ ready_pc = "finish"
    /\ timeout_services' = Filter(specs_to_start, TimedOutNames)
    /\ healthy_services' = Filter(specs_to_start, HealthyNames)
    /\ ready_pc' = IF failed_services # <<>> THEN "exit1" ELSE "done0"
    /\ UNCHANGED <<readyCfg, idx, failed_services, service_urls, clock,
                   elapsed, query_failed, seen_rows, pod_exited, all_done,
                   pending, probe, slept, polled>>

NextReady ==
    \/ Launch
    \/ NoWaitReturn
    \/ WaitBegin
    \/ LoopTop
    \/ ProcessSpec
    \/ SleepOrBreak
    \/ Finish

-----------------------------------------------------------------------------
(* render_status: the status table *)

Dash == [n |-> 0, unit |-> "-"]

\* status_view.py:44-52 and 87-94  the s / m / h / d buckets
Bucket(total_seconds) ==
    IF total_seconds < 60 THEN [n |-> total_seconds, unit |-> "s"]
    ELSE IF total_seconds < 3600 THEN [n |-> total_seconds \div 60, unit |-> "m"]
    ELSE IF total_seconds < 86400 THEN [n |-> total_seconds \div 3600, unit |-> "h"]
    ELSE [n |-> total_seconds \div 86400, unit |-> "d"]

\* A timestamp of container inspect: its text format and how long ago it is.
\*   "empty"   the key is missing or its value is ""
\*   "zero"    "0001-01-01T00:00:00Z", a container that never started
\*   "iso"     "2025-12-04T06:03:42.530956537Z", one token
\*   "podman"  "2025-12-04 06:03:42.530956537 -0500 EST", date and time tokens
NoTime == [fmt |-> "empty", age |-> 0]
ZeroTime == [fmt |-> "zero", age |-> 0]
Ages == {0, 59, 60, 3600, 86400}
StartTimes ==
    {NoTime, ZeroTime, [fmt |-> "iso", age |-> 3600]}
       \cup {[fmt |-> "podman", age |-> a] : a \in Ages}
FinishTimes == {NoTime, ZeroTime, [fmt |-> "iso", age |-> 60]}

\* status_view.py:25-56  _format_uptime: only a text of at least two tokens,
\* date and time, is parsed; everything else gives "-"
FormatUptime(ts) ==
    IF ts.fmt = "podman" THEN Bucket(ts.age) ELSE Dash

\* status_view.py:59-98  _format_time_since: "-" for no or the zero
\* timestamp, else the bucket of the ISO or the date-and-time text
FormatTimeSince(ts) ==
    IF ts.fmt \in {"empty", "zero"} THEN Dash
    ELSE [Bucket(ts.age) EXCEPT !.unit = @ \o " ago"]

ExitCodes == {0, 1, 137}

\* status_view.py:178  restart_count > 3
CrashLoopThreshold == 3

NoInput == [status |-> "none", image_exists |-> FALSE, inspect |-> FALSE,
            started |-> NoTime, finished |-> NoTime, exit_code |-> 0,
            restart_count |-> 0]

Text(label) == [label |-> label, n |-> 0]

Row(name, status_text, time) ==
    [name |-> name, status |-> status_text, time |-> time]

StatusIdle ==
    /\ status_specs = <<>>
    /\ status_pc = "idle"
    /\ status_in = NoInput
    /\ table = <<>>

\* status_view.py:118-126  pod rows fetched, empty table
StatusInit ==
    /\ status_specs \in {SubSeq(AllNames, 1, n) : n \in 1..NumRows}
    /\ status_pc = "rows"
    /\ status_in = NoInput
    /\ table = <<>>

StatusName == status_specs[Len(table) + 1]

\* status_view.py:128-137  no row for the pod: "not pulled" or "stopped"
RenderNoPod ==
    /\ UNCHANGED notStatus
    /\ status_pc = "rows"
    /\ Len(table) < Len(status_specs)
    /\ \E image_exists \in BOOLEAN :
         /\ status_in' = [NoInput EXCEPT !.image_exists = image_exists]
         /\ table' = Append(table,
                Row(StatusName,
                    IF ~image_exists THEN Text("not pulled") ELSE Text("stopped"),
                    Dash))
    /\ UNCHANGED <<status_specs, status_pc>>

\* status_view.py:141-158  uptime, finished_at, exit_code, restart_count as
\* read from container inspect; the defaults if it has no State
Inspected(in) ==
    IF in.inspect
    THEN [uptime |-> IF in.started.fmt # "empty"
                     THEN FormatUptime(in.started) ELSE Dash,
          finished_at |-> IF in.finished.fmt # "empty"
                          THEN FormatTimeSince(in.finished) ELSE Dash,
          exit_code |-> in.exit_code,
          restart_count |-> in.restart_count]
    ELSE [uptime |-> Dash, finished_at |-> Dash, exit_code |-> 0,
          restart_count |-> 0]

\* the answers of the runtime for a pod that has a row
RowInputs(status) ==
    {[NoInput EXCEPT !.status = status]}
       \cup {[status |-> status, image_exists |-> FALSE, inspect |-> TRUE,
              started |-> st, finished |-> fin, exit_code |-> ec,
              restart_count |-> rc] :
                st \in StartTimes, fin \in FinishTimes, ec \in ExitCodes,
                rc \in 0..MaxRestarts}

\* status_view.py:172-186  the status text of an exited pod
ExitedText(i) ==
    IF i.uptime = Dash \/ i.uptime = [n |-> 0, unit |-> "s"]
    THEN Text("created")
    ELSE IF i.exit_code # 0
    THEN [label |-> "failed", n |-> i.exit_code]
    ELSE IF i.restart_count > CrashLoopThreshold
    THEN [label |-> "crash loop", n |-> i.restart_count]
    ELSE IF i.restart_count > 0
    THEN [label |-> "restarting", n |-> i.restart_count]
    ELSE Text("stopped")

\* status_view.py:172-186  the time shown for an exited pod
ExitedTime(i) ==
    LET t == ExitedText(i) IN
    IF t.label = "created" THEN Dash
    ELSE IF t.label \in {"failed", "stopped"}
    THEN IF i.finished_at # Dash THEN i.finished_at ELSE i.uptime
    ELSE i.finished_at

\* status_view.py:160-166  a running pod: the row shows the health ping
RenderRunning ==
    /\ UNCHANGED notStatus
    /\ status_pc = "rows"
    /\ Len(table) < Len(status_specs)
    /\ \E in \in RowInputs("Running"), health \in {"-", "ok", "warn"} :
         /\ status_in' = in
         /\ table' = Append(table,
                Row(StatusName, Text(health), Inspected(in).uptime))
    /\ UNCHANGED <<status_specs, status_pc>>

\* status_view.py:167-188  an exited pod
RenderExited ==
    /\ UNCHANGED notStatus
    /\ status_pc = "rows"
    /\ Len(table) < Len(status_specs)
    /\ \E in \in RowInputs("Exited") :
         /\ status_in' = in
         /\ table' = Append(table,
                Row(StatusName, ExitedText(Inspected(in)),
                    ExitedTime(Inspected(in))))
    /\ UNCHANGED <<status_specs, status_pc>>

\* status_view.py:189-190  any other pod status is shown as it is
RenderOther ==
    /\ UNCHANGED notStatus
    /\ status_pc = "rows"
    /\ Len(table) < Len(status_specs)
    /\ \E in \in RowInputs("Created") \cup RowInputs("Degraded") :
         /\ status_in' = in
         /\ table' = Append(table,
                Row(StatusName, Text(in.status), Inspected(in).uptime))
    /\ UNCHANGED <<status_specs, status_pc>>

\* status_view.py:192-193  the table and the legend are printed
PrintTable ==
    /\ UNCHANGED notStatus
    /\ status_pc = "rows"
    /\ Len(table) = Len(status_specs)
    /\ status_pc' = "printed"
    /\ UNCHANGED <<status_specs, status_in, table>>

NextStatus ==
    \/ RenderNoPod
    \/ RenderRunning
    \/ RenderExited
    \/ RenderOther
    \/ PrintTable

-----------------------------------------------------------------------------
(* ServiceRegistry and ServiceManager *)

RegNames == {"ollama", "open-webui"}
RegImages == {"image-a", "image-b"}

\* services.py:31-43  a ServiceSpec, as far as the registry tells specs apart
RegSpecs == [name : RegNames, image : RegImages]

NoSpec == [name |-> "", image |-> ""]

\* the names a caller may ask for
AskNames == RegNames \cup {"missing"}

RECURSIVE SeqsUpTo(_, _)
SeqsUpTo(S, n) ==
    IF n = 0 THEN {<<>>}
    ELSE LET shorter == SeqsUpTo(S, n - 1) IN
         shorter \cup {Append(q, x) : q \in {r \in shorter : Len(r) = n - 1}, x \in S}

\* services.py:58  {spec.name: spec for spec in specs}: the last spec of a
\* name is the one the dict keeps
SpecsByName(q) ==
    [n \in {q[i].name : i \in 1..Len(q)} |->
        q[CHOOSE i \in 1..Len(q) :
              /\ q[i].name = n
              /\ \A j \in 1..Len(q) : q[j].name = n => j <= i]]

NoCall == [op |-> "none", names |-> <<>>, name |-> "",
           needs_gpu |-> FALSE, spec_force_cpu |-> FALSE,
           gpu_available |-> FALSE, force_cpu |-> FALSE,
           specs |-> <<>>, fails |-> {}, max_concurrent |-> 0]

NoOut == [raised |-> FALSE, specs |-> <<>>, names |-> <<>>, found |-> NoSpec,
          missing |-> <<>>, available |-> <<>>, gpu |-> FALSE,
          pulled |-> <<>>, error |-> ""]

ManagerIdle ==
    /\ reg_order = <<>>
    /\ reg_specs = <<>>
    /\ mgr_in = NoCall
    /\ mgr_out = NoOut

\* services.py:56-58  ServiceRegistry.__init__
ManagerInit ==
    /\ reg_order \in SeqsUpTo(RegSpecs, MaxRegistered)
    /\ reg_specs = SpecsByName(reg_order)
    /\ mgr_in = NoCall
    /\ mgr_out = NoOut

\* services.py:60-61  all()
RegistryAll == reg_order

\* services.py:63-64  get(name)
RegistryGet(name) ==
    IF name \in DOMAIN reg_specs THEN reg_specs[name] ELSE NoSpec

\* services.py:66-67  names()
RegistryNames == [i \in 1..Len(reg_order) |-> reg_order[i].name]

RECURSIVE SelectNames(_, _)
SelectNames(q, keep) ==
    IF q = <<>> THEN <<>>
    ELSE IF Head(q) \in keep THEN <<Head(q)>> \o SelectNames(Tail(q), keep)
    ELSE SelectNames(Tail(q), keep)

\* services.py:72  the requested names that are not registered
MissingFirst(names) ==
    LET m == SelectNames(names, AskNames \ DOMAIN reg_specs) IN
    IF m = <<>> THEN m ELSE <<Head(m)>>
Missing(names) == SelectNames(names, AskNames \ DOMAIN reg_specs)

\* services.py:77  the spec of each requested name, in the caller's order
ResolvedSorted(names) ==
    LET got == [i \in 1..Len(names) |-> reg_specs[names[i]]] IN
    SelectNames(reg_order, {got[i] : i \in 1..Len(got)})
Resolved(names) == [i \in 1..Len(names) |-> reg_specs[names[i]]]

\* services.py:60-61  all() is called
CallAll ==
    /\ UNCHANGED notManager
    /\ mgr_in' = [NoCall EXCEPT !.op = "all"]
    /\ mgr_out' = [NoOut EXCEPT !.specs = RegistryAll]
    /\ UNCHANGED <<reg_order, reg_specs>>

\* services.py:66-67  names() is called
CallNames ==
    /\ UNCHANGED notManager
    /\ mgr_in' = [NoCall EXCEPT !.op = "names"]
    /\ mgr_out' = [NoOut EXCEPT !.names = RegistryNames]
    /\ UNCHANGED <<reg_order, reg_specs>>

\* services.py:63-64  get(name) is called
CallGet ==
    /\ UNCHANGED notManager
    /\ \E name \in AskNames :
         /\ mgr_in' = [NoCall EXCEPT !.op = "get", !.name = name]
         /\ mgr_out' = [NoOut EXCEPT !.found = RegistryGet(name)]
    /\ UNCHANGED <<reg_order, reg_specs>>

\* services.py:69-77 and 103-105  resolve(names); None and [] are <<>>
CallResolve ==
    /\ UNCHANGED notManager
    /\ \E names \in SeqsUpTo(AskNames, MaxNames) :
         /\ mgr_in' = [NoCall EXCEPT !.op = "resolve", !.names = names]
         /\ mgr_out' =
              IF names = <<>>
              THEN [NoOut EXCEPT !.specs = RegistryAll]
              ELSE IF Missing(names) # <<>>
              THEN [NoOut EXCEPT !.raised = TRUE,
                                 !.missing = Missing(names),
                                 !.available = RegistryNames]
              ELSE [NoOut EXCEPT !.specs = Resolved(names)]
    /\ UNCHANGED <<reg_order, reg_specs>>

\* services.py:157  gpu=spec.needs_gpu and gpu_available and not force_cpu
GpuFlag(needs_gpu, spec_force_cpu, gpu_available, force_cpu) ==
    needs_gpu /\ gpu_available /\ ~force_cpu

\* services.py:146-158  start_service(spec, gpu_available, force_cpu): the
\* spec carries needs_gpu and, as config.py:324 builds it, force_cpu; the
\* call of run_container is recorded with its gpu argument
CallStartService ==
    /\ UNCHANGED notManager
    /\ \E needs_gpu, spec_force_cpu, gpu_available, force_cpu \in BOOLEAN :
         /\ mgr_in' = [NoCall EXCEPT !.op = "start_service",
                                     !.needs_gpu = needs_gpu,
                                     !.spec_force_cpu = spec_force_cpu,
                                     !.gpu_available = gpu_available,
                                     !.force_cpu = force_cpu]
         /\ mgr_out' = [NoOut EXCEPT !.gpu =
                GpuFlag(needs_gpu, spec_force_cpu, gpu_available, force_cpu)]
    /\ UNCHANGED <<reg_order, reg_specs>>

\* the smallest member of a non-empty set of numbers
Least(S) == CHOOSE k \in S : \A j \in S : k <= j

\* services.py:141-144  pull_images(self, specs): the signature takes no
\* max_concurrent, so a call that passes one (max_concurrent # 0) ends in
\* Python's TypeError before the body runs; the body calls
\* podman.pull_image for the specs in order and the first call that raises
\* ends the loop.  fails holds the positions whose pull raises; pulled is
\* the positions for which pull_image was called.
PullImages(given, fails, concurrent) ==
    IF concurrent # 0
    THEN [NoOut EXCEPT !.raised = TRUE, !.error = "TypeError"]
    ELSE IF fails = {}
    THEN [NoOut EXCEPT !.pulled = [i \in 1..Len(given) |-> i]]
    ELSE [NoOut EXCEPT !.raised = TRUE, !.error = "PodmanError",
                       !.pulled = [i \in 1..Least(fails) |-> i]]

\* manager.pull_images(specs) and manager.pull_images(specs, max_concurrent=n)
CallPullImages ==
    /\ UNCHANGED notManager
    /\ \E fails \in SUBSET (1..Len(reg_order)), concurrent \in 0..MaxConcurrentArg :
         /\ mgr_in' = [NoCall EXCEPT !.op = "pull_images",
                                     !.specs = reg_order,
                                     !.fails = fails,
                                     !.max_concurrent = concurrent]
         /\ mgr_out' = PullImages(reg_order, fails, concurrent)
    /\ UNCHANGED <<reg_order, reg_specs>>

NextManager ==
    \/ CallPullImages
    \/ CallAll
    \/ CallNames
    \/ CallGet
    \/ CallResolve
    \/ CallStartService

-----------------------------------------------------------------------------
(* The Docker runtime adapter: docker.py behind DockerRuntime *)

\* A container or pod name is the sequence of the parts that '-' separates:
\* <<"open", "webui", "0">> is "open-webui-0".
\* Pod and container names come from the configuration (resolver.py:33,
\* defaults.py:39-40 and 61-62); "open" is a configured pod whose name
\* begins the name of another.
ContainerNames == {<<"ollama", "0">>, <<"ollama", "1">>, <<"open", "webui", "0">>}
PodNames == {<<"ollama">>, <<"open", "webui">>, <<"open">>}

\* the State values and the Status texts of docker ps
PsStates == {"running", "restarting", "paused", "exited", "created", "dead"}
PsTexts == {"Up 5 seconds", "Restarting (1) 5 seconds ago", "Paused",
            "Exited (0) 2 minutes ago", "Created", "Dead"}

\* a row of docker ps carries the condition in State or in Status
PsRows ==
    {[Names |-> n, State |-> st, Status |-> ""] : n \in ContainerNames, st \in PsStates}
       \cup {[Names |-> n, State |-> "", Status |-> tx] : n \in ContainerNames, tx \in PsTexts}

DistinctNames(rows) ==
    \A i, j \in 1..Len(rows) : rows[i].Names = rows[j].Names => i = j

\* docker.py:77-88  value.startswith(prefix), over the texts of the model
StartsWith(value, prefix) ==
    CASE prefix = "Up"         -> value = "Up 5 seconds"
      [] prefix = "Exited"     -> value = "Exited (0) 2 minutes ago"
      [] prefix = "Created"    -> value = "Created"
      [] prefix = "Restarting" -> value = "Restarting (1) 5 seconds ago"
      [] prefix = "Paused"     -> value = "Paused"

\* docker.py:70-90  _normalize_container_status
NormalizeContainerStatus(value) ==
    IF value = "" THEN "Unknown"
    ELSE IF value = "running" THEN "Running"
    ELSE IF StartsWith(value, "Up") THEN "Running"
    ELSE IF StartsWith(value, "Exited") THEN "Exited"
    ELSE IF StartsWith(value, "Created") THEN "Created"
    ELSE IF StartsWith(value, "Restarting") THEN "Restarting"
    ELSE IF StartsWith(value, "Paused") THEN "Paused"
    ELSE "Unknown"

\* docker.py:95-102  the order table, 99 for a status that is not in it
StatusOrder(status) ==
    CASE status = "Running"    -> 0
      [] status = "Restarting" -> 1
      [] status = "Paused"     -> 2
      [] status = "Exited"     -> 3
      [] status = "Created"    -> 4
      [] status = "Unknown"    -> 5
      [] OTHER                 -> 99

\* docker.py:93-103  _merge_pod_status
MergePodStatusLastWins(current, incoming) == incoming
MergePodStatus(current, incoming) ==
    IF StatusOrder(incoming) < StatusOrder(current) THEN incoming ELSE current

\* docker.py:351  name.rsplit("-", 1)[0] if "-" in name else name
PodNameOf(name) ==
    IF Len(name) > 1 THEN SubSeq(name, 1, Len(name) - 1) ELSE name

\* docker.py:347-348  container.get("State") or container.get("Status") or ""
RawStatus(row) == IF row.State # "" THEN row.State ELSE row.Status

\* docker.py:343-361  one turn of the loop of pod_status: pods is the list
\* of the dict's values in insertion order
AddContainer(pods, row) ==
    LET status == NormalizeContainerStatus(RawStatus(row))
        pod_name == PodNameOf(row.Names)
        entry == [Names |-> row.Names, Status |-> status]
        at == {i \in 1..Len(pods) : pods[i].Name = pod_name}
    IN  IF at = {}
        THEN Append(pods, [Name |-> pod_name, Status |-> status,
                           Containers |-> <<entry>>])
        ELSE [i \in 1..Len(pods) |->
                 IF i \in at
                 THEN [Name |-> pod_name,
                       Status |-> MergePodStatus(pods[i].Status, status),
                       Containers |-> Append(pods[i].Containers, entry)]
                 ELSE pods[i]]

RECURSIVE GroupPods(_, _)
GroupPods(pods, rows) ==
    IF rows = <<>> THEN pods
    ELSE GroupPods(AddContainer(pods, Head(rows)), Tail(rows))

\* docker.py:334-363  pod_status on the rows _ps_json returned
PodStatusOf(rows) == GroupPods(<<>>, rows)

\* subprocess.run of docker: exit code 0, a non-zero exit code
\* (CalledProcessError under check=True), or no docker binary
\* (FileNotFoundError)
RunOutcomes == IF dk_present THEN {"ok", "nonzero"} ELSE {"missing"}

NoDkCall == [op |-> "none", pod |-> <<>>, name |-> <<>>,
             prefer |-> "", podman |-> FALSE]

NoDkOut == [kind |-> "none", flag |-> FALSE, pods |-> <<>>, runtime |-> ""]

Returned == [NoDkOut EXCEPT !.kind = "return"]
RuntimeError == [NoDkOut EXCEPT !.kind = "ContainerRuntimeError"]
NotFoundError == [NoDkOut EXCEPT !.kind = "FileNotFoundError"]

Invoked(cmd, target, result) == [cmd |-> cmd, target |-> target, result |-> result]

DockerIdle ==
    /\ dk_present = FALSE
    /\ dk_rows = <<>>
    /\ dk_in = NoDkCall
    /\ dk_out = NoDkOut
    /\ dk_log = <<>>

DockerInit ==
    /\ dk_present \in BOOLEAN
    /\ dk_rows \in {rows \in SeqsUpTo(PsRows, MaxContainers) : DistinctNames(rows)}
    /\ dk_in = NoDkCall
    /\ dk_out = NoDkOut
    /\ dk_log = <<>>

\* runtime.py:381-382, docker.py:43-67 and 334-363  pod_status: a failed
\* docker ps gives no rows
DkPodStatus ==
    /\ UNCHANGED notDocker
    /\ dk_in = NoDkCall
    /\ \E o \in RunOutcomes :
         /\ dk_in' = [NoDkCall EXCEPT !.op = "pod_status"]
         /\ dk_log' = <<Invoked("ps", <<>>, o)>>
         /\ dk_out' = CASE o = "missing" -> NotFoundError
                        [] o = "nonzero" -> [Returned EXCEPT !.pods = PodStatusOf(<<>>)]
                        [] o = "ok"      -> [Returned EXCEPT !.pods = PodStatusOf(dk_rows)]
    /\ UNCHANGED <<dk_present, dk_rows>>

\* runtime.py:384-385 and docker.py:366-380  pod_inspect: None (flag FALSE)
\* if container inspect fails
DkPodInspect ==
    /\ UNCHANGED notDocker
    /\ dk_in = NoDkCall
    /\ \E pod \in PodNames, o \in RunOutcomes :
         /\ dk_in' = [NoDkCall EXCEPT !.op = "pod_inspect", !.pod = pod]
         /\ dk_log' = <<Invoked("container inspect", Append(pod, "0"), o)>>
         /\ dk_out' = CASE o = "missing" -> NotFoundError
                        [] o = "nonzero" -> [Returned EXCEPT !.flag = FALSE]
                        [] o = "ok"      -> [Returned EXCEPT !.flag = TRUE]
    /\ UNCHANGED <<dk_present, dk_rows>>

\* runtime.py:399-400 and docker.py:164-170  image_exists
DkImageExists ==
    /\ UNCHANGED notDocker
    /\ dk_in = NoDkCall
    /\ \E o \in RunOutcomes :
         /\ dk_in' = [NoDkCall EXCEPT !.op = "image_exists"]
         /\ dk_log' = <<Invoked("image inspect", <<>>, o)>>
         /\ dk_out' = CASE o = "missing" -> NotFoundError
                        [] o = "nonzero" -> [Returned EXCEPT !.flag = FALSE]
                        [] o = "ok"      -> [Returned EXCEPT !.flag = TRUE]
    /\ UNCHANGED <<dk_present, dk_rows>>

\* runtime.py:316-320 and docker.py:153-161  pull_image
DkPullImage ==
    /\ UNCHANGED notDocker
    /\ dk_in = NoDkCall
    /\ \E o \in RunOutcomes :
         /\ dk_in' = [NoDkCall EXCEPT !.op = "pull_image"]
         /\ dk_log' = <<Invoked("pull", <<>>, o)>>
         /\ dk_out' = CASE o = "missing" -> NotFoundError
                        [] o = "nonzero" -> RuntimeError
                        [] o = "ok"      -> Returned
    /\ UNCHANGED <<dk_present, dk_rows>>

\* docker.py:388 and 415  ps --all --filter name=<pod>-: docker lists the
\* containers whose name contains "<pod>-", here part by part
MatchesNameFilter(name, pod) ==
    \E i \in 1..Len(name) :
        /\ i + Len(pod) - 1 < Len(name)
        /\ SubSeq(name, i, i + Len(pod) - 1) = pod

RECURSIVE SelectRows(_, _)
SelectRows(rows, pod) ==
    IF rows = <<>> THEN <<>>
    ELSE IF MatchesNameFilter(Head(rows).Names, pod)
         THEN <<Head(rows).Names>> \o SelectRows(Tail(rows), pod)
         ELSE SelectRows(Tail(rows), pod)

\* docker.py:390-401 and 417-424  the loop over container_names: one
\* invocation per name, a CalledProcessError is passed over
RECURSIVE AttemptsUntilFailure(_, _, _)
AttemptsUntilFailure(cmd, names, failing) ==
    IF names = <<>> THEN <<>>
    ELSE IF Head(names) \in failing
         THEN <<Invoked(cmd, Head(names), "nonzero")>>
         ELSE <<Invoked(cmd, Head(names), "ok")>>
                 \o AttemptsUntilFailure(cmd, Tail(names), failing)
Attempts(cmd, names, failing) ==
    [i \in 1..Len(names) |->
        Invoked(cmd, names[i], IF names[i] \in failing THEN "nonzero" ELSE "ok")]

\* the daemon's row of a container that was stopped
Stopped(row) ==
    IF row.State # "" THEN [row EXCEPT !.State = "exited"]
    ELSE [row EXCEPT !.Status = "Exited (0) 2 minutes ago"]

\* the container is running, as container inspect reports State.Status
IsRunning(row) == row.State = "running" \/ row.Status = "Up 5 seconds"

RECURSIVE DropRows(_, _)
DropRows(rows, names) ==
    IF rows = <<>> THEN <<>>
    ELSE IF Head(rows).Names \in names THEN DropRows(Tail(rows), names)
    ELSE <<Head(rows)>> \o DropRows(Tail(rows), names)

\* runtime.py:369-373 and docker.py:383-407  stop_pod
DkStopPod ==
    /\ UNCHANGED notDocker
    /\ dk_in = NoDkCall
    /\ \E pod \in PodNames, o \in RunOutcomes :
         LET names == SelectRows(dk_rows, pod) IN
         /\ dk_in' = [NoDkCall EXCEPT !.op = "stop_pod", !.pod = pod]
         /\ IF o # "ok"
            THEN /\ dk_log' = <<Invoked("ps", pod, o)>>
                 /\ dk_out' = IF o = "missing" THEN NotFoundError ELSE RuntimeError
                 /\ UNCHANGED dk_rows
            ELSE \E failing \in SUBSET Range(names) :
                 /\ dk_log' = <<Invoked("ps", pod, o)>>
                                 \o Attempts("container stop", names, failing)
                 /\ dk_out' = Returned
                 /\ dk_rows' = [i \in 1..Len(dk_rows) |->
                                   IF dk_rows[i].Names \in Range(names) \ failing
                                   THEN Stopped(dk_rows[i]) ELSE dk_rows[i]]
    /\ UNCHANGED dk_present

\* runtime.py:375-379 and docker.py:410-430  remove_pod
DkRemovePod ==
    /\ UNCHANGED notDocker
    /\ dk_in = NoDkCall
    /\ \E pod \in PodNames, o \in RunOutcomes :
         LET names == SelectRows(dk_rows, pod) IN
         /\ dk_in' = [NoDkCall EXCEPT !.op = "remove_pod", !.pod = pod]
         /\ IF o # "ok"
            THEN /\ dk_log' = <<Invoked("ps", pod, o)>>
                 /\ dk_out' = IF o = "missing" THEN NotFoundError ELSE RuntimeError
                 /\ UNCHANGED dk_rows
            ELSE \E failing \in SUBSET Range(names) :
                 /\ dk_log' = <<Invoked("ps", pod, o)>>
                                 \o Attempts("container rm", names, failing)
                 /\ dk_out' = Returned
                 /\ dk_rows' = DropRows(dk_rows, Range(names) \ failing)
    /\ UNCHANGED dk_present

RowOf(name) == dk_rows[CHOOSE i \in 1..Len(dk_rows) : dk_rows[i].Names = name]

Exists(rows, name) == \E i \in 1..Len(rows) : rows[i].Names = name

\* docker.py:327-331 and 278-284  what run_container returns
ReturnsExisted(existed) == existed

\* docker.py:275-331 and runtime.py:334-361  run_container(name=...)
DkRunContainer ==
    /\ UNCHANGED notDocker
    /\ dk_in = NoDkCall
    /\ \E name \in ContainerNames :
       /\ dk_in' = [NoDkCall EXCEPT !.op = "run_container", !.name = name]
       /\ IF ~dk_present
          THEN /\ dk_log' = <<Invoked("container inspect", name, "missing")>>
               /\ dk_out' = NotFoundError
               /\ UNCHANGED dk_rows
          ELSE \E o1 \in IF Exists(dk_rows, name) THEN {"ok", "nonzero"} ELSE {"nonzero"} :
               LET existed == o1 = "ok"
                   log1 == <<Invoked("container inspect", name, o1)>>
               IN
               IF existed
               THEN \E o2 \in {"ok", "nonzero"} :
                    LET log2 == Append(log1, Invoked("container inspect status", name, o2)) IN
                    IF o2 = "ok" /\ IsRunning(RowOf(name))
                    THEN /\ dk_log' = log2
                         /\ dk_out' = [Returned EXCEPT !.flag = TRUE]
                         /\ UNCHANGED dk_rows
                    ELSE \E o3, o4 \in {"ok", "nonzero"} :
                         LET log4 == log2 \o <<Invoked("container stop", name, o3),
                                                Invoked("container rm", name, o4)>>
                             left == IF o4 = "ok" THEN DropRows(dk_rows, {name})
                                     ELSE dk_rows
                         IN
                         \E o5 \in IF Exists(left, name) THEN {"nonzero"} ELSE {"ok", "nonzero"} :
                            /\ dk_log' = Append(log4, Invoked("run", name, o5))
                            /\ IF o5 = "ok"
                               THEN /\ dk_out' = [Returned EXCEPT !.flag = ReturnsExisted(existed)]
                                    /\ dk_rows' = Append(left,
                                          [Names |-> name, State |-> "running", Status |-> ""])
                               ELSE /\ dk_out' = RuntimeError
                                    /\ dk_rows' = left
               ELSE \E o5 \in IF Exists(dk_rows, name) THEN {"nonzero"} ELSE {"ok", "nonzero"} :
                    /\ dk_log' = Append(log1, Invoked("run", name, o5))
                    /\ IF o5 = "ok"
                       THEN /\ dk_out' = [Returned EXCEPT !.flag = ReturnsExisted(existed)]
                            /\ dk_rows' = Append(dk_rows,
                                  [Names |-> name, State |-> "running", Status |-> ""])
                       ELSE /\ dk_out' = RuntimeError
                            /\ UNCHANGED dk_rows
    /\ UNCHANGED dk_present

\* the values get_runtime is called with; "None" is Python's None
Preferences == {"None", "auto", "podman", "docker", "foobar"}

\* runtime.py:451-469  get_runtime(prefer): the backend it returns, or ""
\* when it raises ContainerRuntimeError; neither binary is looked for
GetRuntime(prefer, podman_available, docker_available) ==
    IF prefer \in {"None", "auto", "podman"} THEN "podman"
    ELSE IF prefer = "docker" THEN "docker"
    ELSE ""

\* get_runtime(prefer) on a host where podman is or is not installed
DkGetRuntime ==
    /\ UNCHANGED notDocker
    /\ dk_in = NoDkCall
    /\ \E prefer \in Preferences, podman_available \in BOOLEAN :
         LET backend == GetRuntime(prefer, podman_available, dk_present) IN
         /\ dk_in' = [NoDkCall EXCEPT !.op = "get_runtime", !.prefer = prefer,
                                      !.podman = podman_available]
         /\ dk_out' = IF backend = "" THEN RuntimeError
                       ELSE [Returned EXCEPT !.runtime = backend]
    /\ UNCHANGED <<dk_present, dk_rows, dk_log>>

\* the adapter call is over and the caller goes on
DkCallOver ==
    /\ UNCHANGED notDocker
    /\ dk_in # NoDkCall
    /\ dk_in' = NoDkCall
    /\ dk_out' = NoDkOut
    /\ dk_log' = <<>>
    /\ UNCHANGED <<dk_present, dk_rows>>

NextDocker ==
    \/ DkGetRuntime
    \/ DkCallOver
    \/ DkPodStatus
    \/ DkPodInspect
    \/ DkImageExists
    \/ DkPullImage
    \/ DkStopPod
    \/ DkRemovePod
    \/ DkRunContainer

-----------------------------------------------------------------------------
(* The ComfyUI image selection: airpods/comfyui.py and                      *)
(* _resolve_cuda_image of airpods/config.py                                  *)

\* Python's None, for an optional string that is not set
None == "None"

\* what Python's truth test of an optional string gives
Truthy(s) == s \notin {None, ""}

\* yanwk/comfyui-boot image variants
YANWK_IMAGES ==
    [cu118 |-> "docker.io/yanwk/comfyui-boot:cu118-slim",
     cu126 |-> "docker.io/yanwk/comfyui-boot:cu126-megapak",
     cu128 |-> "docker.io/yanwk/comfyui-boot:cu128-slim",
     cu130 |-> "docker.io/yanwk/comfyui-boot:cu130-slim",
     cpu   |-> "docker.io/yanwk/comfyui-boot:cpu"]

\* mmartial/comfyui-nvidia-docker images; the CPU entry is the yanwk one
MMARTIAL_IMAGES ==
    [cu126 |-> "docker.io/mmartial/comfyui-nvidia-docker:ubuntu24_cuda12.6.3-20251211",
     cu128 |-> "docker.io/mmartial/comfyui-nvidia-docker:ubuntu24_cuda12.8-20251211",
     cpu   |-> "docker.io/yanwk/comfyui-boot:cpu"]

\* the fixed default variant of airpods.cuda
DEFAULT_CUDA_VERSION == "cu126"

\* the compute capabilities nvidia-smi reports, as (major, minor)
Caps == {<<6, 1>>, <<7, 5>>, <<9, 0>>}

\* the variants a capability table maps a capability to
TableVariants == {"cu118", "cu126", "cu128"}

\* detect_cuda_compute_capability: no GPU and no capability, or a GPU and
\* its capability
Detections ==
    {[has_gpu |-> FALSE, compute_cap |-> <<>>]}
        \cup {[has_gpu |-> TRUE, compute_cap |-> c] : c \in Caps}

\* select_cuda_version of airpods.cuda: the capability table
SelectCudaVersion(compute_cap) == cuda_map[compute_cap]

\* dict.get(key, default)
Get(images, key, default) ==
    IF key \in DOMAIN images THEN images[key] ELSE default

\* select_provider: a pinned family wins, else capability major <= 6 routes
\* to mmartial, else yanwk
SelectProvider(compute_cap, provider) ==
    IF provider = "yanwk" THEN "yanwk"
    ELSE IF provider = "mmartial" THEN "mmartial"
    ELSE IF compute_cap # <<>> /\ compute_cap[1] <= 6 THEN "mmartial"
    ELSE "yanwk"

\* a select_comfyui_image that looks force_cpu up only for a variant that
\* the family does not have
SelectComfyuiImageLookupFirst(cuda_version, force_cpu, provider) ==
    LET images == IF provider = "mmartial" THEN MMARTIAL_IMAGES ELSE YANWK_IMAGES
    IN  IF cuda_version \in DOMAIN images THEN images[cuda_version]
        ELSE IF force_cpu THEN YANWK_IMAGES["cpu"]
        ELSE Get(images, DEFAULT_CUDA_VERSION, YANWK_IMAGES[DEFAULT_CUDA_VERSION])

\* select_comfyui_image
SelectComfyuiImage(cuda_version, force_cpu, provider) ==
    IF force_cpu THEN YANWK_IMAGES["cpu"]
    ELSE LET version == IF Truthy(cuda_version) THEN cuda_version
                        ELSE DEFAULT_CUDA_VERSION
             images == IF provider = "mmartial" THEN MMARTIAL_IMAGES
                       ELSE YANWK_IMAGES
         IN  Get(images, version,
                 Get(images, DEFAULT_CUDA_VERSION,
                     YANWK_IMAGES[DEFAULT_CUDA_VERSION]))

\* the settings of one service: image, cuda_override, gpu.force_cpu and
\* gpu.enabled
Overrides == {None, "cu118", "cu126", "cu128", "cpu"}

ConfiguredImage == "docker.io/configured:latest"

ServiceConfigs ==
    [image : {ConfiguredImage}, cuda_override : Overrides,
     force_cpu : BOOLEAN, enabled : BOOLEAN]

\* runtime.cuda_version and runtime.comfyui_provider
RuntimeConfigs ==
    [cuda_version : {"auto", "cu118", "cu126", "cu128", "cpu"},
     comfyui_provider : {"auto", "yanwk", "mmartial"}]

ImageServiceNames == {"comfyui", "ollama"}

\* a priority chain that asks the runtime setting before the service
SelectedRuntimeFirst(service, runtime, det) ==
    IF runtime.cuda_version # "auto" THEN runtime.cuda_version
    ELSE IF Truthy(service.cuda_override) THEN service.cuda_override
    ELSE IF det.has_gpu /\ det.compute_cap # <<>>
         THEN SelectCudaVersion(det.compute_cap)
    ELSE "cu126"

\* the priority chain of _resolve_cuda_image: service override, runtime
\* setting, auto-detection, fallback
SelectedCudaVersion(service, runtime, det) ==
    IF Truthy(service.cuda_override) THEN service.cuda_override
    ELSE IF runtime.cuda_version # "auto" THEN runtime.cuda_version
    ELSE IF det.has_gpu /\ det.compute_cap # <<>>
         THEN SelectCudaVersion(det.compute_cap)
    ELSE "cu126"

\* a force_cpu that looks at the flag alone
ForceCpuFlagOnly(service) == service.force_cpu

\* force_cpu = service.gpu.force_cpu or not service.gpu.enabled
ForceCpu(service) == service.force_cpu \/ ~service.enabled

\* _resolve_cuda_image
ResolveCudaImage(name, service, runtime, det) ==
    IF name # "comfyui" THEN service.image
    ELSE SelectComfyuiImage(SelectedCudaVersion(service, runtime, det),
                            ForceCpu(service),
                            SelectProvider(det.compute_cap,
                                           runtime.comfyui_provider))

NoService ==
    [image |-> "", cuda_override |-> None, force_cpu |-> FALSE, enabled |-> FALSE]

NoRuntime == [cuda_version |-> "", comfyui_provider |-> ""]

NoDetection == [has_gpu |-> FALSE, compute_cap |-> <<>>]

NoImgCall ==
    [op |-> "none", name |-> "", service |-> NoService, runtime |-> NoRuntime,
     det |-> NoDetection, cuda_version |-> None, force_cpu |-> FALSE,
     provider |-> ""]

NoImgOut == [image |-> "", provider |-> ""]

ImageIdle ==
    /\ cuda_map = <<>>
    /\ img_in = NoImgCall
    /\ img_out = NoImgOut

ImageInit ==
    /\ cuda_map \in [Caps -> TableVariants]
    /\ img_in = NoImgCall
    /\ img_out = NoImgOut

\* _resolve_cuda_image(name, service, config) under one detection
ImgResolve ==
    /\ UNCHANGED notImage
    /\ img_in = NoImgCall
    /\ \E name \in ImageServiceNames, service \in ServiceConfigs,
          runtime \in RuntimeConfigs, det \in Detections :
          /\ img_in' = [op |-> "resolve", name |-> name, service |-> service,
                        runtime |-> runtime, det |-> det,
                        cuda_version |-> SelectedCudaVersion(service, runtime, det),
                        force_cpu |-> ForceCpu(service),
                        provider |-> SelectProvider(det.compute_cap,
                                                    runtime.comfyui_provider)]
          /\ img_out' = [image |-> ResolveCudaImage(name, service, runtime, det),
                         provider |-> ""]
    /\ UNCHANGED cuda_map

\* select_comfyui_image(cuda_version, force_cpu, provider) called directly
ImgSelect ==
    /\ UNCHANGED notImage
    /\ img_in = NoImgCall
    /\ \E cuda_version \in DOMAIN YANWK_IMAGES \cup {None, "", "cu999"},
          force_cpu \in BOOLEAN, provider \in {"yanwk", "mmartial"} :
          /\ img_in' = [NoImgCall EXCEPT !.op = "select",
                                         !.cuda_version = cuda_version,
                                         !.force_cpu = force_cpu,
                                         !.provider = provider]
          /\ img_out' = [image |-> SelectComfyuiImage(cuda_version, force_cpu,
                                                      provider),
                         provider |-> ""]
    /\ UNCHANGED cuda_map

\* select_provider(compute_cap, provider) called directly
ImgProvider ==
    /\ UNCHANGED notImage
    /\ img_in = NoImgCall
    /\ \E det \in Detections, provider \in {"auto", "yanwk", "mmartial"} :
          /\ img_in' = [NoImgCall EXCEPT !.op = "provider", !.det = det,
                                         !.provider = provider]
          /\ img_out' = [image |-> "",
                         provider |-> SelectProvider(det.compute_cap, provider)]
    /\ UNCHANGED cuda_map

\* the call is over and the caller goes on
ImgCallOver ==
    /\ UNCHANGED notImage
    /\ img_in # NoImgCall
    /\ img_in' = NoImgCall
    /\ img_out' = NoImgOut
    /\ UNCHANGED cuda_map

NextImage ==
    \/ ImgCallOver
    \/ ImgResolve
    \/ ImgSelect
    \/ ImgProvider

-----------------------------------------------------------------------------
(* The llama.cpp image derivation: _derive_llamacpp_cpu_image and           *)
(* _derive_llamacpp_gpu_image of airpods/config.py                           *)

\* an image reference is a sequence of these pieces of text; no piece and
\* no run of pieces holds "server-cuda", ":server" or a registry name
\* except as the pieces that spell it
OldRegistry == "ghcr.io/ggerganov/llama.cpp"
NewRegistry == "ghcr.io/ggml-org/llama.cpp"

Pieces == {OldRegistry, NewRegistry, ":", "server", "-cuda", "full"}

RECURSIVE RefsOfLen(_)
RefsOfLen(n) ==
    IF n = 0 THEN {<<>>}
    ELSE {Append(r, p) : r \in RefsOfLen(n - 1), p \in Pieces}

ImageRefs == UNION {RefsOfLen(n) : n \in 0..MaxPieces}

\* image.startswith(old) and image.replace(old, new, 1)
ReplaceRegistry(image) ==
    IF Len(image) > 0 /\ image[1] = OldRegistry
    THEN [image EXCEPT ![1] = NewRegistry]
    ELSE image

\* "server-cuda" in image
HasServerCuda(image) ==
    \E i \in 1..(Len(image) - 1) : image[i] = "server" /\ image[i + 1] = "-cuda"

\* ":server" in image
HasColonServer(image) ==
    \E i \in 1..(Len(image) - 1) : image[i] = ":" /\ image[i + 1] = "server"

\* image.endswith("-cuda")
EndsWithCuda(image) == Len(image) > 0 /\ image[Len(image)] = "-cuda"

\* image.replace("server-cuda", "server"): every "-cuda" that follows a
\* "server" goes
RECURSIVE ReplaceServerCuda(_)
ReplaceServerCuda(image) ==
    IF Len(image) < 2 THEN image
    ELSE IF image[1] = "server" /\ image[2] = "-cuda"
         THEN <<"server">> \o ReplaceServerCuda(SubSeq(image, 3, Len(image)))
         ELSE <<image[1]>> \o ReplaceServerCuda(Tail(image))

\* image.replace(":server", ":server-cuda")
RECURSIVE AddServerCuda(_)
AddServerCuda(image) ==
    IF Len(image) < 2 THEN image
    ELSE IF image[1] = ":" /\ image[2] = "server"
         THEN <<":", "server", "-cuda">> \o AddServerCuda(SubSeq(image, 3, Len(image)))
         ELSE <<image[1]>> \o AddServerCuda(Tail(image))

\* _derive_llamacpp_cpu_image
DeriveLlamacppCpuImage(x) ==
    LET image == ReplaceRegistry(x)
    IN  IF HasServerCuda(image) THEN ReplaceServerCuda(image)
        ELSE IF EndsWithCuda(image) THEN SubSeq(image, 1, Len(image) - 1)
        ELSE image

\* _derive_llamacpp_gpu_image
DeriveLlamacppGpuImage(x) ==
    LET image == ReplaceRegistry(x)
    IN  IF HasServerCuda(image) \/ EndsWithCuda(image) THEN image
        ELSE IF HasColonServer(image) THEN AddServerCuda(image)
        ELSE image

\* no derivation has run
NotDerived == <<"-">>

DeriveIdle ==
    /\ drv_op = "none"
    /\ drv_in = <<>>
    /\ drv_once = NotDerived
    /\ drv_twice = NotDerived

DeriveInit ==
    /\ drv_op = "none"
    /\ drv_in \in ImageRefs
    /\ drv_once = NotDerived
    /\ drv_twice = NotDerived

\* cpu_image = _derive_llamacpp_cpu_image(service.image)
DrvCpu ==
    /\ UNCHANGED notDerive
    /\ drv_op = "none"
    /\ drv_op' = "cpu"
    /\ drv_once' = DeriveLlamacppCpuImage(drv_in)
    /\ UNCHANGED <<drv_in, drv_twice>>

\* the CPU image is derived from a derived CPU image
DrvCpuAgain ==
    /\ UNCHANGED notDerive
    /\ drv_op = "cpu"
    /\ drv_twice = NotDerived
    /\ drv_twice' = DeriveLlamacppCpuImage(drv_once)
    /\ UNCHANGED <<drv_op, drv_in, drv_once>>

\* _derive_llamacpp_gpu_image(service.image)
DrvGpu ==
    /\ UNCHANGED notDerive
    /\ drv_op = "none"
    /\ drv_op' = "gpu"
    /\ drv_once' = DeriveLlamacppGpuImage(drv_in)
    /\ UNCHANGED <<drv_in, drv_twice>>

NextDerive ==
    \/ DrvCpu
    \/ DrvCpuAgain
    \/ DrvGpu

-----------------------------------------------------------------------------
(* Specifications *)

InitPull == PullInit /\ ReadyIdle /\ StatusIdle /\ ManagerIdle /\ DockerIdle /\ ImageIdle /\ DeriveIdle
SpecPull == InitPull /\ [][NextPull]_vars
\* the pool threads and the consumer thread are all scheduled
SpecPullFair == SpecPull /\ WF_vars(NextPull)

PullIdle ==
    /\ writes = <<>>
    /\ specs = <<>>
    /\ max_concurrent = 0
    /\ pull_pc = <<>>
    /\ outcome = <<>>
    /\ pulled = <<>>
    /\ lines_put = 0
    /\ sent = <<>>
    /\ events = <<>>
    /\ received = <<>>
    /\ task_status = <<>>
    /\ failures = <<>>
    /\ done_count = 0
    /\ cons_pc = "idle"

InitReady == ReadyInit /\ PullIdle /\ StatusIdle /\ ManagerIdle /\ DockerIdle /\ ImageIdle /\ DeriveIdle
SpecReady == InitReady /\ [][NextReady]_vars
SpecReadyFair == SpecReady /\ WF_vars(NextReady)

InitStatus == StatusInit /\ PullIdle /\ ReadyIdle /\ ManagerIdle /\ DockerIdle /\ ImageIdle /\ DeriveIdle
SpecStatus == InitStatus /\ [][NextStatus]_vars

InitManager == ManagerInit /\ PullIdle /\ ReadyIdle /\ StatusIdle /\ DockerIdle /\ ImageIdle /\ DeriveIdle
SpecManager == InitManager /\ [][NextManager]_vars

InitDocker == DockerInit /\ PullIdle /\ ReadyIdle /\ StatusIdle /\ ManagerIdle /\ ImageIdle /\ DeriveIdle
SpecDocker == InitDocker /\ [][NextDocker]_vars

InitImage ==
    ImageInit /\ PullIdle /\ ReadyIdle /\ StatusIdle /\ ManagerIdle /\ DockerIdle /\ DeriveIdle
SpecImage == InitImage /\ [][NextImage]_vars

\* start(): the image pull, then the launch loop and the wait, for the
\* same list of services (start.py:514: specs_for_download is made of
\* specs_to_start, which is not empty: start.py:439-442 returns before);
\* every service has a health path and a configured port
StartInit ==
    /\ PullInit
    /\ specs # <<>>
    /\ specs_to_start = specs
    /\ descr = [n \in Range(specs_to_start) |->
                   [health_path |-> TRUE, ports |-> <<SpecPort>>]]
    /\ timeout_seconds \in 0..MaxTimeout
    /\ wait \in BOOLEAN
    /\ ready_pc = "pull"
    /\ idx = 1
    /\ failed_services = <<>>
    /\ service_urls = <<>>
    /\ timeout_services = <<>>
    /\ healthy_services = <<>>
    /\ clock = 0
    /\ elapsed = 0
    /\ query_failed = FALSE
    /\ seen_rows = <<>>
    /\ pod_exited = {}
    /\ all_done = FALSE
    /\ pending = <<>>
    /\ probe = NoProbe
    /\ slept = FALSE
    /\ polled = FALSE
    /\ launched = <<>>

\* start.py:572-578  _pull_images_with_progress is over: when it returned,
\* the launch loop begins; its typer.Exit(1) or its exception ends start()
PullOver ==
    /\ UNCHANGED notReady
    /\ ready_pc = "pull"
    /\ cons_pc \in {"returned", "exit1", "raised"}
    /\ ready_pc' = CASE cons_pc = "returned" -> "launch"
                      [] cons_pc = "exit1"    -> "exit1"
                      [] cons_pc = "raised"   -> "raised"
    /\ UNCHANGED <<readyCfg, idx, failed_services, service_urls,
                   timeout_services, healthy_services, clock, elapsed,
                   query_failed, seen_rows, pod_exited, all_done, pending,
                   probe, slept, polled, launched>>

NextStart ==
    \/ Submit
    \/ \E t \in Tasks : WorkerTake(t)
    \/ \E t \in Tasks : PutStart(t)
    \/ \E t \in Tasks : PopenOk(t)
    \/ \E t \in Tasks : PopenOSError(t)
    \/ \E t \in Tasks : ReadLine(t)
    \/ \E t \in Tasks : ReadRaise(t)
    \/ \E t \in Tasks : SizeRaise(t)
    \/ \E t \in Tasks : PullFinish(t)
    \/ Consume
    \/ ConsumeEmpty
    \/ JoinFutures
    \/ PullOver
    \/ Launch
    \/ NoWaitReturn
    \/ WaitBegin
    \/ LoopTop
    \/ ProcessSpec
    \/ SleepOrBreak
    \/ Finish

InitStart ==
    StartInit /\ StatusIdle /\ ManagerIdle /\ DockerIdle /\ ImageIdle /\ DeriveIdle
SpecStart == InitStart /\ [][NextStart]_vars
\* the pool threads, the consumer and the command itself are all scheduled
SpecStartFair == SpecStart /\ WF_vars(NextStart)

InitDerive ==
    DeriveInit /\ PullIdle /\ ReadyIdle /\ StatusIdle /\ ManagerIdle /\ DockerIdle
        /\ ImageIdle
SpecDerive == InitDerive /\ [][NextDerive]_vars

-----------------------------------------------------------------------------
(* Claims about _pull_images_with_progress *)

PullReturned == cons_pc \in {"returned", "exit1", "raised"} /\ specs # <<>>

TerminalCount(h) == Cardinality({i \in 1..Len(h) : h[i] \in {"done", "error"}})

FailedTasks == {t \in Tasks : outcome[t] \in {"nonzero", "oserror"}}

\* C2: when the call is over, every spec's pull was attempted, every pull that
\* exited with code zero has its done event, the failures list holds exactly
\* the services whose pull failed (non-zero exit or spawn error), each once,
\* and the call exits with code 1 iff that list is non-empty.
C2_FailuresIsolated ==
    PullReturned =>
       /\ \A t \in Tasks : pulled[t] = 1
       /\ \A t \in Tasks :
            outcome[t] = "zero" =>
               /\ received[t] # <<>>
               /\ received[t][Len(received[t])] = "done"
               /\ task_status[t] = "Ready"
       /\ {failures[i] : i \in 1..Len(failures)} = {specs[t] : t \in FailedTasks}
       /\ Len(failures) = Cardinality(FailedTasks)
       /\ (cons_pc = "exit1") <=> (failures # <<>>)

\* C2 witness: the call is over with one failed and one successful pull.
C2_Witness ==
    /\ cons_pc = "exit1"
    /\ \E a, b \in Tasks :
         /\ outcome[a] \in {"nonzero", "oserror"}
         /\ outcome[b] = "zero"
         /\ task_status[b] = "Ready"

\* h is a prefix of: start, then line events, then one terminal event
WellOrdered(h) ==
    \A i \in 1..Len(h) :
       /\ (i = 1) <=> (h[i] = "start")
       /\ h[i] \in {"start", "line", "done", "error"}
       /\ h[i] \in {"done", "error"} => i = Len(h)

IsPrefix(a, b) == Len(a) <= Len(b) /\ SubSeq(b, 1, Len(a)) = a

Complete(h) == Len(h) >= 2 /\ WellOrdered(h) /\ h[Len(h)] \in {"done", "error"}

-----------------------------------------------------------------------------
(* Claims about the readiness wait *)

\* start() has been through the wait loop and its final categorisation
ReadyFinishedWait == wait /\ ready_pc \in {"exit1", "done0"}

NoDup(q) == \A i, j \in 1..Len(q) : q[i] = q[j] => i = j

\* C4: at the end of the readiness wait the healthy, failed and timed-out
\* sets are pairwise disjoint and together hold every service that needed
\* starting, each in exactly one of them; the timed-out set is exactly the
\* services that were neither healthy nor failed when the loop exited.
C4_PartitionAtEnd ==
    ReadyFinishedWait =>
        LET H == Range(healthy_services)
            F == Range(failed_services)
            T == Range(timeout_services)
        IN  /\ H \cap F = {}
            /\ H \cap T = {}
            /\ F \cap T = {}
            /\ H \cup F \cup T = StartNames
            /\ T = {n \in StartNames :
                       n \notin DOMAIN service_urls /\ ~InList(n, failed_services)}
            /\ NoDup(specs_to_start) =>
                   /\ NoDup(healthy_services)
                   /\ NoDup(failed_services)
                   /\ NoDup(timeout_services)
                   /\ Len(healthy_services) + Len(failed_services)
                        + Len(timeout_services) = Len(specs_to_start)

\* C4 witness: the wait ended by timeout after sleeping, with one service
\* healthy and another one timed out.
C4_Witness ==
    /\ ReadyFinishedWait
    /\ slept
    /\ elapsed >= timeout_seconds
    /\ Len(healthy_services) = 1
    /\ Len(timeout_services) = 1
    /\ failed_services = <<>>

\* C5: once a service is marked Failed or Healthy, no later step of the wait
\* changes its classification or its url, and no later turn of the for loop
\* reads its row, inspects its ports or checks its health.
C5_ResolvedNeverReexamined ==
    [][\A n \in StartNames :
          /\ InList(n, failed_services) =>
                 /\ n \in Range(failed_services')
                 /\ n \notin DOMAIN service_urls'
          /\ n \in DOMAIN service_urls =>
                 /\ n \in DOMAIN service_urls'
                 /\ service_urls'[n] = service_urls[n]
                 /\ n \notin Range(failed_services')
          /\ (AlreadyResolved(n) /\ ready_pc = "body" /\ idx' = idx + 1) =>
                 probe'.name # n]_vars

\* C5 witness: in an iteration after a sleep the loop has just skipped the
\* first service, which is healthy, and goes on to the second.
C5_Witness ==
    /\ ready_pc = "body"
    /\ slept
    /\ Len(specs_to_start) = 2
    /\ idx = 2
    /\ probe = NoProbe
    /\ specs_to_start[1] \in DOMAIN service_urls
    /\ ~AlreadyResolved(specs_to_start[2])

NewlyHealthy(n) == n \notin DOMAIN service_urls /\ n \in DOMAIN service_urls'

HttpOk(http) == ~http.error /\ http.code >= 200 /\ http.code <= 399

\* C6 as stated: a service is marked Healthy only if its snapshot status is
\* Running and either its descriptor has no health path or one HTTP GET
\* returned a status in 200..399.
C6_Original ==
    [][\A n \in StartNames :
          NewlyHealthy(n) =>
              /\ probe'.name = n
              /\ probe'.status = "Running"
              /\ \/ ~descr[n].health_path
                 \/ probe'.checked /\ HttpOk(probe'.http)]_vars

\* C6: a service is marked Healthy only if its status in that iteration's
\* snapshot is Running and either its descriptor has no health path, or no
\* host port is known for it (it is then marked Healthy with an empty url
\* and no GET is issued), or one HTTP GET returned a status in 200..399.  A
\* missing row, a status other than Running, any other HTTP status or a
\* connection error never marks it Healthy: Exited and Error mark it Failed,
\* everything else leaves it pending.
C6_HealthyOnlyIfReady ==
    [][\A n \in StartNames :
          /\ NewlyHealthy(n) =>
                 /\ probe'.name = n
                 /\ probe'.status = "Running"
                 /\ probe'.inspected
                 /\ \/ ~descr[n].health_path /\ ~probe'.checked
                    \/ service_urls'[n] = 0 /\ ~probe'.checked
                    \/ probe'.checked /\ HttpOk(probe'.http)
          /\ (~AlreadyResolved(n) /\ ready_pc = "body" /\ idx' = idx + 1
                /\ probe'.name = n) =>
                 /\ probe'.status \in {"Exited", "Error"} =>
                        InList(n, failed_services') /\ ~NewlyHealthy(n)
                 /\ probe'.status \in {"none", "Created"} =>
                        /\ InList(n, pending')
                        /\ ~all_done'
                        /\ ~AlreadyResolved(n)'
                 /\ (probe'.checked /\ ~HttpOk(probe'.http)) =>
                        /\ InList(n, pending')
                        /\ ~all_done'
                        /\ ~AlreadyResolved(n)']_vars

\* C6 witness: a service whose descriptor has a health path has just been
\* marked Healthy with an empty url and without a GET, as no host port is
\* known for it.
C6_Witness ==
    /\ ready_pc = "body"
    /\ probe.name \in DOMAIN service_urls
    /\ descr[probe.name].health_path
    /\ service_urls[probe.name] = 0
    /\ probe.status = "Running"
    /\ ~probe.checked

\* C7 as stated: with a startup timeout of 0 the wait returns without
\* sleeping; a service whose pod has already exited is reported Failed and
\* every other one TimedOut (or Failed, if its launch raised).
C7_Original ==
    (ReadyFinishedWait /\ timeout_seconds = 0) =>
        /\ ~slept
        /\ \A n \in StartNames :
              IF n \in pod_exited
              THEN InList(n, failed_services)
              ELSE InList(n, timeout_services) \/ InList(n, failed_services)

\* C7: with a startup timeout of 0 the wait returns without sleeping and
\* without querying the pod status; no service is Healthy, and every
\* requested service is reported TimedOut, one whose pod has already exited
\* included, except those whose launch raised, which are reported Failed.
C7_ZeroTimeout ==
    (wait /\ timeout_seconds = 0) =>
        /\ ~slept
        /\ ~polled
        /\ service_urls = <<>>
        /\ ready_pc \notin {"body", "raised"}
        /\ ReadyFinishedWait =>
              /\ healthy_services = <<>>
              /\ Range(timeout_services) = StartNames \ Range(failed_services)
              /\ \A n \in pod_exited :
                    InList(n, timeout_services) \/ InList(n, failed_services)

\* C7 witness: the wait with timeout 0 is over; a service whose pod has
\* exited is reported TimedOut and one whose launch raised is Failed.
C7_Witness ==
    /\ ReadyFinishedWait
    /\ timeout_seconds = 0
    /\ failed_services # <<>>
    /\ \E n \in pod_exited :
          InList(n, timeout_services) /\ ~InList(n, failed_services)

-----------------------------------------------------------------------------
(* Claims about the status table *)

\* the last row has been rendered for an exited pod whose inspect has a State
ExitedRendered ==
    /\ table # <<>>
    /\ status_in.status = "Exited"
    /\ status_in.inspect

LastStatus == table[Len(table)].status

\* the container has a start time, in the date-and-time format or in ISO
HasStarted == status_in.started.fmt \in {"podman", "iso"}

\* C9: an Exited service with RestartCount > 3, whose container started, is
\* labelled "crash loop (N restarts)" for every exit code.
C9_CrashLoopAnyExitCode ==
    (/\ ExitedRendered
     /\ status_in.started.fmt = "podman"
     /\ status_in.started.age > 0
     /\ status_in.restart_count > CrashLoopThreshold) =>
        LastStatus = [label |-> "crash loop", n |-> status_in.restart_count]

\* C10: with RestartCount = 0, no pod and no image gives "not pulled", no
\* pod and an image "stopped", Exited without a start time "created", Exited
\* after a start with ExitCode 0 "stopped" and with ExitCode N # 0
\* "failed (exit N)".
C10_LabelsWithoutRestarts ==
    (table # <<>> /\ status_in.restart_count = 0) =>
        /\ (status_in.status = "none" /\ ~status_in.image_exists) =>
               LastStatus = Text("not pulled")
        /\ (status_in.status = "none" /\ status_in.image_exists) =>
               LastStatus = Text("stopped")
        /\ (status_in.status = "Exited" /\ ~(status_in.inspect /\ HasStarted)) =>
               LastStatus = Text("created")
        /\ (ExitedRendered /\ HasStarted /\ status_in.exit_code = 0) =>
               LastStatus = Text("stopped")
        /\ (ExitedRendered /\ HasStarted /\ status_in.exit_code # 0) =>
               LastStatus = [label |-> "failed", n |-> status_in.exit_code]

\* C29: render_status labels an Exited pod "created" only if its container
\* has no recorded start time: a container whose inspection carries a start
\* time, in the date-and-time format or in ISO and however recently it
\* started, is never labelled created; its label is one of those given by
\* the exit code and the restart count.
C29_CreatedOnlyWithoutStart ==
    (ExitedRendered /\ HasStarted) =>
        /\ LastStatus.label # "created"
        /\ LastStatus.label \in {"failed", "crash loop", "restarting", "stopped"}

-----------------------------------------------------------------------------
(* Claims about the registry and the manager *)

\* C11: start_service passes gpu=true to run_container iff the descriptor
\* has needs_gpu true and force_cpu false, the caller's force-CPU override
\* is false and a GPU is available.
C11_GpuOnlyIfAllFavourable ==
    mgr_in.op = "start_service" =>
        (mgr_out.gpu <=> /\ mgr_in.needs_gpu
                         /\ ~mgr_in.spec_force_cpu
                         /\ ~mgr_in.force_cpu
                         /\ mgr_in.gpu_available)

Registered(names) == \A i \in 1..Len(names) : names[i] \in DOMAIN reg_specs

\* C12: resolve returns, for an empty or absent name list, every registered
\* descriptor in registration order, and for a non-empty list of registered
\* names the descriptor of each name, in the caller's order and multiplicity.
C12_ResolveOrder ==
    (mgr_in.op = "resolve" /\ Registered(mgr_in.names)) =>
        /\ ~mgr_out.raised
        /\ IF mgr_in.names = <<>>
           THEN mgr_out.specs = reg_order
           ELSE /\ Len(mgr_out.specs) = Len(mgr_in.names)
                /\ \A i \in 1..Len(mgr_in.names) :
                      /\ mgr_out.specs[i].name = mgr_in.names[i]
                      /\ mgr_out.specs[i] = RegistryGet(mgr_in.names[i])

\* C12 witness: resolve was given two registered names in the reverse of
\* their registration order and returned their descriptors in that order.
C12_Witness ==
    /\ mgr_in.op = "resolve"
    /\ Len(reg_order) = 2
    /\ Len(mgr_in.names) = 2
    /\ mgr_in.names[1] = reg_order[2].name
    /\ mgr_in.names[2] = reg_order[1].name
    /\ mgr_in.names[1] # mgr_in.names[2]
    /\ mgr_out.specs = <<reg_order[2], reg_order[1]>>

\* C13: if any requested name is not registered, resolve raises
\* UnknownServiceError whose message lists every unresolved name and every
\* registered name, returns no descriptor, and leaves the registry unchanged.
C13_UnknownRaises ==
    [][(mgr_in'.op = "resolve" /\ ~Registered(mgr_in'.names)) =>
          /\ mgr_out'.raised
          /\ mgr_out'.specs = <<>>
          /\ Range(mgr_out'.missing) =
                {mgr_in'.names[i] : i \in 1..Len(mgr_in'.names)} \ DOMAIN reg_specs
          /\ Range(mgr_out'.available) = DOMAIN reg_specs
          /\ mgr_out'.available = RegistryNames
          /\ reg_order' = reg_order
          /\ reg_specs' = reg_specs]_vars

\* C13 witness: resolve was given a registered name followed by a name that
\* is not registered; it raised, listing the second name, and returned no
\* descriptor.
C13_Witness ==
    /\ mgr_in.op = "resolve"
    /\ mgr_out.raised
    /\ reg_order # <<>>
    /\ Len(mgr_in.names) = 2
    /\ mgr_in.names[1] \in DOMAIN reg_specs
    /\ mgr_out.missing = <<mgr_in.names[2]>>
    /\ mgr_out.specs = <<>>

\* C14: for every registry, whatever sequence of descriptors it was built
\* from, the names it iterates (all(), names(), resolve(None)) are pairwise
\* distinct and in registration order, and each iterated descriptor is the
\* one get(name) returns for its name.
C14_NamesUnique ==
    /\ (mgr_in.op = "all" \/ (mgr_in.op = "resolve" /\ mgr_in.names = <<>>)) =>
          /\ mgr_out.specs = reg_order
          /\ \A i, j \in 1..Len(mgr_out.specs) :
                mgr_out.specs[i].name = mgr_out.specs[j].name => i = j
          /\ \A i \in 1..Len(mgr_out.specs) :
                mgr_out.specs[i] = RegistryGet(mgr_out.specs[i].name)
    /\ mgr_in.op = "names" =>
          /\ NoDup(mgr_out.names)
          /\ mgr_out.names = RegistryNames

-----------------------------------------------------------------------------
(* Claims about the Docker runtime adapter *)

\* C15: every adapter operation whose docker invocation exits non-zero, or
\* whose binary is missing, raises ContainerRuntimeError; none turns such a
\* failure into a normal return value.  Stated for the operations that made
\* one invocation, which failed.
C15_FailureRaises ==
    (Len(dk_log) = 1 /\ dk_log[1].result # "ok") =>
        dk_out.kind = "ContainerRuntimeError"

PodOps == {"stop_pod", "remove_pod"}

PodCmd(op) == IF op = "stop_pod" THEN "container stop" ELSE "container rm"

\* C16: stop_pod(P) and remove_pod(P) attempt the stop (the forced removal)
\* of every container enumerated for P exactly once, in the order of the
\* enumeration and whichever attempts fail, and then return; they raise, and
\* attempt nothing, only when the enumeration itself fails.
C16_EveryContainerAttempted ==
    [][(dk_in'.op \in PodOps) =>
          LET names == SelectRows(dk_rows, dk_in'.pod) IN
          IF dk_log'[1].result = "ok"
          THEN /\ dk_out'.kind = "return"
               /\ Len(dk_log') = 1 + Len(names)
               /\ \A i \in 1..Len(names) :
                     /\ dk_log'[i + 1].cmd = PodCmd(dk_in'.op)
                     /\ dk_log'[i + 1].target = names[i]
               /\ \A i, j \in 1..Len(names) : names[i] = names[j] => i = j
          ELSE /\ dk_out'.kind # "return"
               /\ Len(dk_log') = 1
               /\ dk_rows' = dk_rows]_vars

\* C16 witness: stop_pod returned after the stop of the first of two
\* containers failed and the stop of the second one succeeded.
C16_Witness ==
    /\ dk_in.op = "stop_pod"
    /\ dk_out.kind = "return"
    /\ Len(dk_log) = 3
    /\ dk_log[2].result = "nonzero"
    /\ dk_log[3].result = "ok"
    /\ dk_log[2].target # dk_log[3].target

Permuted(rows, f) == [i \in 1..Len(rows) |-> rows[f[i]]]

StatusMap(pods) == {<<pods[i].Name, pods[i].Status>> : i \in 1..Len(pods)}

\* C17: pod_status groups the containers by the part of the name before the
\* last '-' segment and reports for each group the status of highest
\* priority among its containers under Running > Restarting > Paused >
\* Exited > Created > Unknown; the status of each group is the same for
\* every order of the rows.
C17_PodStatusByPriority ==
    (dk_in.op = "pod_status" /\ dk_out.kind = "return" /\ dk_log[1].result = "ok") =>
        /\ \A i \in 1..Len(dk_rows) :
              \E k \in 1..Len(dk_out.pods) :
                 /\ dk_out.pods[k].Name = PodNameOf(dk_rows[i].Names)
                 /\ \E c \in Range(dk_out.pods[k].Containers) :
                       c.Names = dk_rows[i].Names
        /\ \A k \in 1..Len(dk_out.pods) :
              LET pod == dk_out.pods[k] IN
              /\ \A c \in Range(pod.Containers) :
                    /\ PodNameOf(c.Names) = pod.Name
                    /\ Exists(dk_rows, c.Names)
                    /\ c.Status \in {"Running", "Restarting", "Paused",
                                     "Exited", "Created", "Unknown"}
                    /\ StatusOrder(pod.Status) <= StatusOrder(c.Status)
              /\ \E c \in Range(pod.Containers) : c.Status = pod.Status
              /\ \A j \in 1..Len(dk_out.pods) :
                    dk_out.pods[j].Name = pod.Name => j = k
        /\ \A f \in Permutations(1..Len(dk_rows)) :
              StatusMap(PodStatusOf(Permuted(dk_rows, f))) = StatusMap(dk_out.pods)

\* C17 witness: pod_status reported Running for a pod whose first listed
\* container is not running and whose second one is.
C17_Witness ==
    /\ dk_in.op = "pod_status"
    /\ dk_out.kind = "return"
    /\ Len(dk_out.pods) = 1
    /\ Len(dk_out.pods[1].Containers) = 2
    /\ dk_out.pods[1].Containers[1].Status = "Exited"
    /\ dk_out.pods[1].Containers[2].Status = "Running"
    /\ dk_out.pods[1].Status = "Running"

HasInvoked(cmd, result) ==
    \E i \in 1..Len(dk_log) : dk_log[i].cmd = cmd /\ dk_log[i].result = result

\* C18: run_container returns True iff a container of the name existed and
\* was replaced (stopped, removed and run again), and False iff none existed
\* and a new one was created; whenever it returns normally it has run a
\* container of that name.
C18_RunContainerResult ==
    (dk_in.op = "run_container" /\ dk_out.kind = "return") =>
        LET existed == dk_log[1].result = "ok" IN
        /\ HasInvoked("run", "ok")
        /\ dk_out.flag <=>
              /\ existed
              /\ \E i \in 1..Len(dk_log) : dk_log[i].cmd = "container stop"
              /\ \E i \in 1..Len(dk_log) : dk_log[i].cmd = "container rm"
              /\ HasInvoked("run", "ok")
        /\ ~dk_out.flag <=> (~existed /\ HasInvoked("run", "ok"))

\* the containers a pod operation has tried to stop or to remove
ActedOn ==
    {dk_log[i].target : i \in {j \in 1..Len(dk_log) :
                                  dk_log[j].cmd \in {"container stop", "container rm"}}}

\* C27: in the Docker backend the containers that stop_pod(P) and
\* remove_pod(P) act on are exactly the containers that pod_status groups
\* under P, for all pod names, those that begin another pod's name or
\* contain '-' included: the operation touches no container that pod_status
\* reports under another pod, and it passes over none of P's own (the
\* containers of P that are still listed after remove_pod are those whose
\* removal was attempted and failed).
C27_PodMembershipConsistent ==
    (dk_in.op \in PodOps /\ dk_out.kind = "return") =>
        /\ \A name \in ActedOn : PodNameOf(name) = dk_in.pod
        /\ \A i \in 1..Len(dk_rows) :
              PodNameOf(dk_rows[i].Names) = dk_in.pod => dk_rows[i].Names \in ActedOn

\* the canonical status of the condition a row of docker ps reports, by its
\* State value or by its Status text
ConditionOf(row) ==
    CASE row.State = "running" \/ row.Status = "Up 5 seconds" -> "Running"
      [] row.State = "exited" \/ row.Status = "Exited (0) 2 minutes ago" -> "Exited"
      [] row.State = "created" \/ row.Status = "Created" -> "Created"
      [] row.State = "restarting" \/ row.Status = "Restarting (1) 5 seconds ago"
            -> "Restarting"
      [] row.State = "paused" \/ row.Status = "Paused" -> "Paused"
      [] OTHER -> "Unknown"

\* C28: Docker pod_status gives a container the same canonical status
\* whether its row reports the condition through the lowercase State value
\* or through the Status text; the status is one of Running, Exited,
\* Created, Restarting, Paused, Unknown, and it is Unknown only for a row
\* that carries neither a recognisable State nor a recognisable Status.
C28_SameStatusByStateOrText ==
    (dk_in.op = "pod_status" /\ dk_out.kind = "return" /\ dk_log[1].result = "ok") =>
        \A k \in 1..Len(dk_out.pods) :
           \A c \in Range(dk_out.pods[k].Containers) :
              c.Status = ConditionOf(RowOf(c.Names))

-----------------------------------------------------------------------------
(* Claims about the ComfyUI image selection *)

\* the CPU-only image
CpuOnlyImage == "docker.io/yanwk/comfyui-boot:cpu"

\* the resolution of the comfyui image has returned
ResolvedComfyui == img_in.op = "resolve" /\ img_in.name = "comfyui"

\* C19: when the service sets force_cpu, or has its GPU disabled, the
\* resolved ComfyUI image is the CPU-only image, whatever the detected
\* capability, the per-service CUDA override, the runtime CUDA setting and
\* the provider family are; select_comfyui_image called with force_cpu
\* returns the CPU-only image for every variant and family.
C19_ForceCpuGivesCpuImage ==
    /\ (ResolvedComfyui /\ (img_in.service.force_cpu \/ ~img_in.service.enabled))
          => img_out.image = CpuOnlyImage
    /\ (img_in.op = "select" /\ img_in.force_cpu)
          => img_out.image = CpuOnlyImage

\* C19 witness: a service with the GPU disabled and no force_cpu flag, a
\* cu128 override, a cu118 runtime setting, a detected 9.0 GPU and the
\* mmartial family pinned resolves to the CPU-only image.
C19_Witness ==
    /\ ResolvedComfyui
    /\ ~img_in.service.force_cpu
    /\ ~img_in.service.enabled
    /\ img_in.service.cuda_override = "cu128"
    /\ img_in.runtime.cuda_version = "cu118"
    /\ img_in.runtime.comfyui_provider = "mmartial"
    /\ img_in.det.compute_cap = <<9, 0>>
    /\ img_out.image = CpuOnlyImage

\* the variant the strict precedence names for the last resolution
PrecedenceVariant ==
    LET service == img_in.service
        runtime == img_in.runtime
        det == img_in.det
    IN  IF service.cuda_override # None THEN service.cuda_override
        ELSE IF runtime.cuda_version # "auto" THEN runtime.cuda_version
        ELSE IF det.has_gpu THEN cuda_map[det.compute_cap]
        ELSE "cu126"

\* the image table of the family the last resolution used
FamilyImages ==
    IF img_in.provider = "mmartial" THEN MMARTIAL_IMAGES ELSE YANWK_IMAGES

-----------------------------------------------------------------------------
(* Claims about the llama.cpp image derivation *)

\* C21: once the CPU image has been derived from an image reference and
\* derived again from the result, the second result is the first.
C21_DeriveCpuIdempotent ==
    (drv_op = "cpu" /\ drv_twice # NotDerived) => drv_twice = drv_once

-----------------------------------------------------------------------------
(* Claims about ServiceManager.pull_images *)

\* C22: when no pull fails, pull_images returns after the image pull was
\* invoked exactly once for each given spec, whether max_concurrent was
\* passed or not; when a pull raises, pull_images raises that exception.
C22_PullImagesOncePerSpec ==
    mgr_in.op = "pull_images" =>
        IF mgr_in.fails = {}
        THEN /\ ~mgr_out.raised
             /\ Len(mgr_out.pulled) = Len(mgr_in.specs)
             /\ \A i \in 1..Len(mgr_in.specs) :
                   Cardinality({k \in 1..Len(mgr_out.pulled) :
                                   mgr_out.pulled[k] = i}) = 1
        ELSE mgr_out.raised /\ mgr_out.error = "PodmanError"

-----------------------------------------------------------------------------
(* Claims about the threads of _pull_images_with_progress *)

C25_AggregatorTerminates ==
    <>(cons_pc \in {"returned", "exit1", "raised"})

-----------------------------------------------------------------------------
(* Claims about get_runtime *)

\* C24: get_runtime(None) and get_runtime("auto") return Podman when podman
\* is installed, Docker when only docker is, and raise
\* ContainerRuntimeError when neither is; "podman" and "docker" return the
\* named backend; any other value raises ContainerRuntimeError.
C24_GetRuntimeByAvailability ==
    dk_in.op = "get_runtime" =>
        CASE dk_in.prefer \in {"None", "auto"} ->
                 IF dk_in.podman
                 THEN dk_out.kind = "return" /\ dk_out.runtime = "podman"
                 ELSE IF dk_present
                 THEN dk_out.kind = "return" /\ dk_out.runtime = "docker"
                 ELSE dk_out.kind = "ContainerRuntimeError"
          [] dk_in.prefer \in {"podman", "docker"} ->
                 dk_out.kind = "return" /\ dk_out.runtime = dk_in.prefer
          [] OTHER -> dk_out.kind = "ContainerRuntimeError"

-----------------------------------------------------------------------------
(* Claims about the launch loop of start() *)

\* the names for which start_service raised
LaunchFailed == {launched[i].name : i \in {k \in 1..Len(launched) : launched[k].raised}}

\* the launch loop is over
LaunchOver == ready_pc \notin {"idle", "pull", "launch"}

\* C30: start_service is called for every service of the list in order,
\* whether or not an earlier call raised; a service whose start_service
\* raised is in failed_services from then on, is not the service being
\* polled, has no URL, and is in neither healthy_services nor
\* timeout_services; and the command ends with exit code 1 exactly when
\* failed_services is not empty.
C30_LaunchFailureIsolated ==
    /\ Len(launched) <= Len(specs_to_start)
    /\ \A i \in 1..Len(launched) : launched[i].name = specs_to_start[i]
    /\ LaunchOver => Len(launched) = Len(specs_to_start)
    /\ \A n \in LaunchFailed :
          /\ InList(n, failed_services)
          /\ probe.name # n
          /\ n \notin DOMAIN service_urls
          /\ ~InList(n, healthy_services)
          /\ ~InList(n, timeout_services)
    /\ ready_pc \in {"exit1", "done0"} =>
          (ready_pc = "exit1" <=> failed_services # <<>>)

\* C30 witness: start_service raised for the first of two services, the
\* second was launched and became healthy, and the command ended with
\* exit code 1 after the wait.
C30_Witness ==
    /\ Len(launched) = 2
    /\ launched[1].raised
    /\ ~launched[2].raised
    /\ launched[1].name # launched[2].name
    /\ wait
    /\ healthy_services = <<launched[2].name>>
    /\ failed_services = <<launched[1].name>>
    /\ timeout_services = <<>>
    /\ ready_pc = "exit1"

-----------------------------------------------------------------------------
(* Claims about the order of pull and launch in start() *)

\* the pulls that failed
FailedPulls == {t \in Tasks : outcome[t] \in {"nonzero", "oserror"}}

\* C26: start_service is called only after _pull_images_with_progress has
\* returned with every pull finished and none failed; once a pull has
\* failed no service is ever launched, and the command then ends with exit
\* code 1.
C26_NoLaunchBeforePulls ==
    /\ [](launched # <<>> =>
             /\ cons_pc = "returned"
             /\ \A t \in Tasks : pull_pc[t] = "returned" /\ outcome[t] = "zero")
    /\ [](FailedPulls # {} => launched = <<>>)
    /\ [](FailedPulls # {} => <>(ready_pc = "exit1"))

====
